---------------------------- MODULE Spec2Model ----------------------------
(***************************************************************************)
(* Model of the Marstek B2500 BLE protocol engine (src/marstek.py):        *)
(* frame codec, notification dispatcher with its four decoders, the        *)
(* per-opcode table of pending response futures, and the command flow      *)
(* (connect, _send_command, the get_* operations, set_dod and              *)
(* monitor_continuous) as an asyncio task whose suspension points are the  *)
(* awaits of the source.                                                   *)
(*                                                                         *)
(* Bytes are naturals 0..255, a frame is a sequence of bytes.  Python      *)
(* indexes from 0: At(d, i) is d[i].  Text is a sequence of character      *)
(* codes.  Cell voltages are kept in integer millivolts (the source        *)
(* divides by 1000 into volts).                                            *)
(***************************************************************************)
EXTENDS Integers, Sequences, FiniteSets, TLC

(***************************************************************************)
(* Command constants (class attributes of MarstekB2500).                   *)
(***************************************************************************)
CMD_RUNTIME_INFO == 3
CMD_DEVICE_INFO == 4
CMD_SET_DOD == 11
CMD_CELL_VOLTAGES == 15
CMD_GET_TIMERS == 19

CMD_ENABLE_ADAPTIVE == 17

CMD_SET_REGION == 2

(***************************************************************************)
(* Python primitives used by the source.                                   *)
(***************************************************************************)
Min2(a, b) == IF a <= b THEN a ELSE b

Max2(a, b) == IF a >= b THEN a ELSE b

\* d[i] with a 0-based index
At(d, i) == d[i + 1]

\* int.from_bytes(d[i:i+2], byteorder='little')
LE16(d, i) == At(d, i) + 256 * At(d, i + 1)

\* s[a:b] for 0 <= a; a negative b counts from the end (b = -1 drops the last item)
PySlice(s, a, b) ==
    LET n  == Len(s)
        e0 == IF b < 0 THEN Max2(b + n, 0) ELSE Min2(b, n)
        s0 == Min2(a, n)
    IN  IF e0 <= s0 THEN <<>> ELSE SubSeq(s, s0 + 1, e0)

\* whether pat occurs in s at 0-based position i
MatchAt(s, pat, i) ==
    /\ i + Len(pat) <= Len(s)
    /\ \A k \in 1..Len(pat) : s[i + k] = pat[k]

\* s.find(pat, start): lowest 0-based index >= start, or -1
PyFind(s, pat, start) ==
    LET hits == {i \in start..(Len(s) - Len(pat)) : MatchAt(s, pat, i)}
    IN  IF hits = {} THEN -1 ELSE CHOOSE i \in hits : \A j \in hits : i <= j

\* pat in s
PyIn(pat, s) == PyFind(s, pat, 0) # -1

\* bytes.decode('utf-8', errors='ignore') on the frames of this model: every
\* byte below 128 is its own character; a byte of 128 or more that does not
\* start a well-formed multi-byte sequence is dropped (the frames of the
\* model hold no well-formed multi-byte sequence).
Utf8Ignore(d) == SelectSeq(d, LAMBDA b : b < 128)

IsSpace(c) == c \in (9..13) \cup (28..32)

RECURSIVE LStrip(_)
LStrip(s) == IF s # <<>> /\ IsSpace(Head(s)) THEN LStrip(Tail(s)) ELSE s

RECURSIVE RStrip(_)
RStrip(s) ==
    IF s # <<>> /\ IsSpace(s[Len(s)]) THEN RStrip(SubSeq(s, 1, Len(s) - 1)) ELSE s

\* str.strip()
PyStrip(s) == RStrip(LStrip(s))

\* str.split(sep) for a one-character separator: always at least one part
RECURSIVE PySplit(_, _)
PySplit(s, sep) ==
    LET hits == {i \in 1..Len(s) : s[i] = sep}
    IN  IF hits = {} THEN <<s>>
        ELSE LET i == CHOOSE k \in hits : \A j \in hits : k <= j
             IN  <<SubSeq(s, 1, i - 1)>> \o PySplit(SubSeq(s, i + 1, Len(s)), sep)

IsDigit(c) == c \in 48..57

RECURSIVE DigitsValue(_)
DigitsValue(s) ==
    IF s = <<>> THEN 0 ELSE 10 * DigitsValue(SubSeq(s, 1, Len(s) - 1)) + (s[Len(s)] - 48)

\* int(s) and float(s) on the text of this model (decimal digits, signs,
\* letters and white space; no point, exponent, inf or nan): surrounding
\* white space is stripped, then an optional sign and a non-empty run of
\* digits are accepted, and anything else raises ValueError
PyNumeric(s) ==
    LET t == PyStrip(s)
        u == IF t # <<>> /\ t[1] \in {43, 45} THEN Tail(t) ELSE t
    IN  u # <<>> /\ \A k \in 1..Len(u) : IsDigit(u[k])

\* the value of int(s) and float(s) where they accept s
PyNumber(s) ==
    LET t == PyStrip(s)
    IN  IF t[1] = 45 THEN 0 - DigitsValue(Tail(t))
        ELSE IF t[1] = 43 THEN DigitsValue(Tail(t))
        ELSE DigitsValue(t)

\* f"{n:02d}" as character codes
Fmt02(n) ==
    IF n < 10 THEN <<48, 48 + n>>
    ELSE IF n < 100 THEN <<48 + (n \div 10), 48 + (n % 10)>>
    ELSE <<48 + (n \div 100), 48 + ((n \div 10) % 10), 48 + (n % 10)>>

\* f"{h:02d}:{m:02d}"
FmtTime(h, m) == Fmt02(h) \o <<58>> \o Fmt02(m)

RECURSIVE Xor8(_, _, _)
Xor8(a, b, bit) ==
    IF bit = 256 THEN 0
    ELSE (IF ((a \div bit) % 2) # ((b \div bit) % 2) THEN bit ELSE 0) + Xor8(a, b, 2 * bit)

\* a ^ b on bytes
Xor(a, b) == Xor8(a, b, 1)

RECURSIVE XorAll(_)
XorAll(s) == IF s = <<>> THEN 0 ELSE Xor(XorAll(SubSeq(s, 1, Len(s) - 1)), s[Len(s)])

(***************************************************************************)
(* Frame codec: MarstekB2500._create_command.                              *)
(***************************************************************************)
\* no packet: the assignment of line 147 raises ValueError (a bytearray item
\* above 255)
ValueError == <<>>

\* variant of _create_command: the checksum taken before the length byte
\* is set
_create_commandEarlyCrc(opcode, data) ==
    LET packet0 == <<115, 0, 35, opcode>> \o data
        packet1 == [packet0 EXCEPT ![2] = Len(packet0) + 1]
    IN  packet1 \o <<XorAll(packet0)>>

\* variant of _create_command: a length byte that leaves out the checksum
_create_commandBareLength(opcode, data) ==
    LET packet0 == <<115, 0, 35, opcode>> \o data
        packet1 == [packet0 EXCEPT ![2] = Len(packet0)]
    IN  packet1 \o <<XorAll(packet1)>>

\* lines 136-154 (data is a bytes object: the callers' int is bytes([data]))
_create_command(opcode, data) ==
    LET packet0 == <<115, 0, 35, opcode>> \o data
        packet1 == [packet0 EXCEPT ![2] = Len(packet0) + 1]
    IN  IF Len(packet0) + 1 > 255 THEN ValueError
        ELSE packet1 \o <<XorAll(packet1)>>

(***************************************************************************)
(* Response decoders.  Each is given the whole notification (header        *)
(* included), the time of the decode and the slot's previous value, and    *)
(* returns the slot's value after the call: the new record, or the         *)
(* previous value when the source returns or catches without assigning.    *)
(* EmptyDict is the {} the slots are constructed with.                     *)
(***************************************************************************)
EmptyDict == [empty |-> TRUE]

\* MarstekB2500._decode_runtime_info
_decode_runtime_info(data, at, old) ==
    IF Len(data) < 36 THEN old
    ELSE [timestamp |-> at,
          pv1 |-> [active |-> At(data, 4) > 0, transparent |-> At(data, 4) = 2,
                   power |-> LE16(data, 6)],
          pv2 |-> [active |-> At(data, 5) > 0, transparent |-> At(data, 5) = 2,
                   power |-> LE16(data, 8)],
          battery |-> [percent_tenths |-> LE16(data, 10),
                       capacity_wh |-> LE16(data, 22),
                       dod |-> At(data, 18),
                       temp1 |-> At(data, 33),
                       temp2 |-> At(data, 35)],
          output1 |-> [active |-> At(data, 16) = 1, power |-> LE16(data, 24)],
          output2 |-> [active |-> At(data, 17) = 1, power |-> LE16(data, 26)],
          settings |-> [load_first |-> At(data, 13) = 1,
                        power_output_mode |-> At(data, 14),
                        discharge_threshold |-> LE16(data, 19),
                        scene_mode |-> At(data, 21),
                        region |-> At(data, 30)],
          status |-> [firmware |-> At(data, 12),
                      wifi |-> At(data, 15) \in {1, 3},
                      mqtt |-> At(data, 15) \in {2, 3},
                      ext_battery1 |-> At(data, 28) = 1,
                      ext_battery2 |-> At(data, 29) = 1]]

\* the markers 'type=', 'id=', 'mac=', 'version=' and ','
TxtType == <<116, 121, 112, 101, 61>>

TxtId == <<105, 100, 61>>

TxtMac == <<109, 97, 99, 61>>

TxtVersion == <<118, 101, 114, 115, 105, 111, 110, 61>>

TxtComma == <<44>>

\* "Unknown"
TxtUnknown == <<85, 110, 107, 110, 111, 119, 110>>

\* MarstekB2500._decode_device_info (the device info record has no timestamp)
_decode_device_info(data, old) ==
    LET data_str   == Utf8Ignore(data)
        type_start == PyFind(data_str, TxtType, 0) + 5
        type_end   == PyFind(data_str, TxtComma, type_start)
        id_start   == PyFind(data_str, TxtId, 0) + 3
        id_end     == PyFind(data_str, TxtComma, id_start)
        mac_start  == PyFind(data_str, TxtMac, 0) + 4
        mac_end    == IF PyIn(TxtComma, PySlice(data_str, mac_start, Len(data_str)))
                      THEN PyFind(data_str, TxtComma, mac_start)
                      ELSE Len(data_str)
        ver_start  == PyFind(data_str, TxtVersion, 0) + 8
    IN  IF PyIn(TxtType, data_str) /\ PyIn(TxtId, data_str) /\ PyIn(TxtMac, data_str)
        THEN [type |-> PySlice(data_str, type_start, type_end),
              id |-> PySlice(data_str, id_start, id_end),
              mac |-> PySlice(data_str, mac_start, mac_end),
              firmware |-> IF PyIn(TxtVersion, data_str)
                           THEN PyStrip(PySlice(data_str, ver_start, Len(data_str)))
                           ELSE TxtUnknown]
        ELSE old

\* the running sum, minimum and maximum of the loops of _decode_cell_voltages:
\* cell_min starts at float('inf'), cell_max and cell_sum at 0
RECURSIVE SeqSum(_)
SeqSum(s) == IF s = <<>> THEN 0 ELSE s[1] + SeqSum(Tail(s))

RECURSIVE SeqMin(_)
SeqMin(s) == IF Len(s) = 1 THEN s[1] ELSE Min2(s[1], SeqMin(Tail(s)))

RECURSIVE SeqMax(_)
SeqMax(s) == IF s = <<>> THEN 0 ELSE Max2(s[1], SeqMax(Tail(s)))

\* the dictionary both branches of _decode_cell_voltages assign: cells is
\* the list cell_voltages, whose item k is stored under the key cell<k>;
\* avg is sum/count, kept as that fraction
CellRecord(at, soc, temp1, temp2, cell_voltages) ==
    [timestamp |-> at,
     soc |-> soc,
     temperatures |-> [temp1 |-> temp1, temp2 |-> temp2],
     cells |-> cell_voltages,
     summary |-> [min |-> SeqMin(cell_voltages),
                  max |-> SeqMax(cell_voltages),
                  avg |-> <<SeqSum(cell_voltages), Len(cell_voltages)>>,
                  diff |-> SeqMax(cell_voltages) - SeqMin(cell_voltages),
                  sum |-> SeqSum(cell_voltages),
                  count |-> Len(cell_voltages)]]

\* what a branch of _decode_cell_voltages yields when it assigns nothing
NoRecord == [none |-> TRUE]

\* a variant of the text branch that reads a cell from every field after
\* the third
CellTextBranchAllFields(data, at) ==
    LET data_str == Utf8Ignore(PySlice(data, 4, Len(data)))
        parts    == PySplit(data_str, 95)
        used     == SelectSeq([k \in 1..(Len(parts) - 3) |-> k + 3],
                              LAMBDA i : parts[i] # <<>>)
        cell_voltages == [k \in 1..Len(used) |-> PyNumber(parts[used[k]])]
    IN  IF Len(parts) < 17 THEN NoRecord
        ELSE IF \E i \in 1..3 : ~PyNumeric(parts[i]) THEN NoRecord
        ELSE IF \E k \in 1..Len(used) : ~PyNumeric(parts[used[k]]) THEN NoRecord
        ELSE IF used = <<>> THEN NoRecord
        ELSE CellRecord(at, PyNumber(parts[1]), PyNumber(parts[2]), PyNumber(parts[3]),
                        cell_voltages)

\* the text branch (lines 344-403): NoRecord when it falls through to the
\* binary branch (fewer than 17 parts, a ValueError, or no cell appended)
CellTextBranch(data, at) ==
    LET data_str == Utf8Ignore(PySlice(data, 4, Len(data)))
        parts    == PySplit(data_str, 95)
        used     == SelectSeq([k \in 1..14 |-> k + 3], LAMBDA i : parts[i] # <<>>)
        cell_voltages == [k \in 1..Len(used) |-> PyNumber(parts[used[k]])]
    IN  IF Len(parts) < 17 THEN NoRecord
        ELSE IF \E i \in 1..3 : ~PyNumeric(parts[i]) THEN NoRecord
        ELSE IF \E k \in 1..Len(used) : ~PyNumeric(parts[used[k]]) THEN NoRecord
        ELSE IF used = <<>> THEN NoRecord
        ELSE CellRecord(at, PyNumber(parts[1]), PyNumber(parts[2]), PyNumber(parts[3]),
                        cell_voltages)

\* a variant of the binary branch that reads the 16-bit pairs up to the end
\* of the frame
CellBinaryBranchToEnd(data, at) ==
    LET idx == {i \in 7..(Len(data) - 1) : (i - 7) % 2 = 0 /\ i + 1 < Len(data)}
        n   == Cardinality(idx)
        cell_voltages == [k \in 1..n |-> LE16(data, 7 + 2 * (k - 1))]
    IN  IF Len(data) < 32 THEN NoRecord
        ELSE IF n = 0 THEN NoRecord
        ELSE CellRecord(at, At(data, 4), At(data, 5), At(data, 6), cell_voltages)

\* the binary branch (lines 406-468): NoRecord when the frame is too short
CellBinaryBranch(data, at) ==
    LET idx == {i \in 7..(Min2(35, Len(data)) - 1) : (i - 7) % 2 = 0 /\ i + 1 < Len(data)}
        n   == Cardinality(idx)
        cell_voltages == [k \in 1..n |-> LE16(data, 7 + 2 * (k - 1))]
    IN  IF Len(data) < 32 THEN NoRecord
        ELSE IF n = 0 THEN NoRecord
        ELSE CellRecord(at, At(data, 4), At(data, 5), At(data, 6), cell_voltages)

\* a variant of _decode_cell_voltages that tries the binary layout first
_decode_cell_voltagesBinaryFirst(data, at, old) ==
    LET text == CellTextBranch(data, at)
        bin  == CellBinaryBranch(data, at)
    IN  IF bin # NoRecord THEN bin
        ELSE IF text # NoRecord THEN text
        ELSE old

\* MarstekB2500._decode_cell_voltages: text first, binary as the fallback
_decode_cell_voltages(data, at, old) ==
    LET text == CellTextBranch(data, at)
        bin  == CellBinaryBranch(data, at)
    IN  IF text # NoRecord THEN text
        ELSE IF bin # NoRecord THEN bin
        ELSE old

\* one timer block of _decode_timer_info: enabled flag at offset o, four
\* time bytes, 16-bit power
TimerBlock(data, o) ==
    [enabled |-> At(data, o) = 1,
     start_time |-> FmtTime(At(data, o + 1), At(data, o + 2)),
     end_time |-> FmtTime(At(data, o + 3), At(data, o + 4)),
     power |-> LE16(data, o + 5)]

\* the value given to a timer4/timer5 key that the dictionary does not hold
NoTimer == [absent |-> TRUE]

\* a variant of _decode_timer_info that asks one more byte for timer5
_decode_timer_infoLateFifth(data, at, old) ==
    IF Len(data) < 33 THEN old
    ELSE [timestamp |-> at,
          timer1 |-> TimerBlock(data, 5),
          timer2 |-> TimerBlock(data, 12),
          timer3 |-> TimerBlock(data, 19),
          adaptive |-> [enabled |-> At(data, 26) = 1,
                        power |-> LE16(data, 27),
                        meter |-> LE16(data, 29),
                        time |-> LE16(data, 31)],
          timer4 |-> IF Len(data) >= 57 THEN TimerBlock(data, 43) ELSE NoTimer,
          timer5 |-> IF Len(data) >= 58 THEN TimerBlock(data, 50) ELSE NoTimer]

\* MarstekB2500._decode_timer_info
_decode_timer_info(data, at, old) ==
    IF Len(data) < 33 THEN old
    ELSE [timestamp |-> at,
          timer1 |-> TimerBlock(data, 5),
          timer2 |-> TimerBlock(data, 12),
          timer3 |-> TimerBlock(data, 19),
          adaptive |-> [enabled |-> At(data, 26) = 1,
                        power |-> LE16(data, 27),
                        meter |-> LE16(data, 29),
                        time |-> LE16(data, 31)],
          timer4 |-> IF Len(data) >= 57 THEN TimerBlock(data, 43) ELSE NoTimer,
          timer5 |-> IF Len(data) >= 57 THEN TimerBlock(data, 50) ELSE NoTimer]

(***************************************************************************)
(* The notifications the transport delivers in this model.                 *)
(***************************************************************************)
\* a notification of 3 bytes
FrameShort == <<115, 3, 35>>

\* a runtime-info response of exactly 36 bytes
FrameRuntime == <<115, 37, 35, 3, 1, 2, 44, 1, 0, 0, 82, 3, 110, 1, 0, 3, 1, 0, 80, 244, 1, 1, 192, 8, 100, 0, 0, 0, 0, 1, 0, 0, 0, 24, 0, 26>>

\* a runtime-info response of 35 bytes
FrameRuntimeShort == <<115, 37, 35, 3, 1, 2, 44, 1, 0, 0, 82, 3, 110, 1, 0, 3, 1, 0, 80, 244, 1, 1, 192, 8, 100, 0, 0, 0, 0, 1, 0, 0, 0, 24, 0>>

\* device info 'type=A,id=7,mac=M,version=1' with its checksum
FrameDevice == <<115, 32, 35, 4, 116, 121, 112, 101, 61, 65, 44, 105, 100, 61, 55, 44, 109, 97, 99, 61, 77, 44, 118, 101, 114, 115, 105, 111, 110, 61, 49, 82>>

\* device info without the mac= marker
FrameDeviceNoMac == <<115, 16, 35, 4, 116, 121, 112, 101, 61, 65, 44, 105, 100, 61, 55, 11>>

\* cell voltages as text, 17 fields: soc 85, temperatures 25 and 27, 14 readings
FrameCellText == <<115, 83, 35, 15, 56, 53, 95, 50, 53, 95, 50, 55, 95, 51, 51, 48, 48, 95, 51, 51, 48, 49, 95, 51, 50, 57, 57, 95, 51, 51, 48, 50, 95, 51, 50, 57, 56, 95, 51, 51, 48, 48, 95, 51, 51, 48, 49, 95, 51, 50, 57, 57, 95, 51, 51, 48, 50, 95, 51, 50, 57, 56, 95, 51, 51, 48, 48, 95, 51, 51, 48, 49, 95, 51, 50, 57, 57, 95, 51, 51, 48, 48>>

\* cell voltages in the binary layout: soc 80, temperatures 24 and 26, 14 readings
FrameCellBinary == <<115, 36, 35, 15, 80, 24, 26, 228, 12, 229, 12, 227, 12, 230, 12, 226, 12, 228, 12, 229, 12, 227, 12, 230, 12, 226, 12, 228, 12, 229, 12, 227, 12, 231, 12, 44>>

\* a truncated text cell frame of 17 bytes
FrameCellBad == <<115, 18, 35, 15, 56, 53, 95, 50, 53, 95, 50, 55, 95, 51, 51, 48, 48>>

\* a timer response of 34 bytes
FrameTimer == <<115, 34, 35, 19, 0, 1, 8, 0, 12, 30, 32, 3, 0, 0, 0, 0, 0, 0, 0, 1, 18, 5, 23, 59, 144, 1, 1, 88, 2, 16, 0, 5, 0, 188>>

\* a timer response of 32 bytes
FrameTimerShort == <<115, 34, 35, 19, 0, 1, 8, 0, 12, 30, 32, 3, 0, 0, 0, 0, 0, 0, 0, 1, 18, 5, 23, 59, 144, 1, 1, 88, 2, 16, 0, 5>>

\* a response to set-DOD, an opcode without decoder
FrameDodAck == <<115, 6, 35, 11, 1, 92>>

\* the text example of the specification, as the payload after the header:
\* 16 fields
FrameCellExample ==
    <<115, 77, 35, 15, 56, 53, 95, 50, 53, 95, 50, 55, 95, 51, 51, 48, 48, 95, 51, 51,
    48, 49, 95, 51, 50, 57, 57, 95, 51, 51, 48, 50, 95, 51, 50, 57, 56, 95, 51, 51, 48,
    48, 95, 51, 51, 48, 49, 95, 51, 50, 57, 57, 95, 51, 51, 48, 50, 95, 51, 50, 57, 56,
    95, 51, 51, 48, 48, 95, 51, 51, 48, 49, 95, 51, 50, 57, 57>>

\* more cell frames with text payloads:
\*   1. 18 and 19 fields: the fields after the 17th are 3300 and 9999
\*   2. 17 fields, the second reading empty
\*   3. 17 fields, every reading negative
\*   4. 17 fields, soc is not a number
\*   5. 17 fields, every reading empty, 26 bytes
\*   6. 19 fields, the 14 readings empty
CellTextFrames ==
    <<<<115, 87, 35, 15, 56, 53, 95, 50, 53, 95, 50, 55, 95, 51, 51, 48, 48, 95, 51,
      51, 48, 49, 95, 51, 50, 57, 57, 95, 51, 51, 48, 50, 95, 51, 50, 57, 56, 95, 51,
      51, 48, 48, 95, 51, 51, 48, 49, 95, 51, 50, 57, 57, 95, 51, 51, 48, 50, 95, 51,
      50, 57, 56, 95, 51, 51, 48, 48, 95, 51, 51, 48, 49, 95, 51, 50, 57, 57, 95, 51,
      51, 48, 48, 95, 57, 57, 57, 57>>,
      <<115, 78, 35, 15, 56, 53, 95, 50, 53, 95, 50, 55, 95, 51, 51, 48, 48, 95, 95,
      51, 50, 57, 57, 95, 51, 51, 48, 50, 95, 51, 50, 57, 56, 95, 51, 51, 48, 48, 95,
      51, 51, 48, 49, 95, 51, 50, 57, 57, 95, 51, 51, 48, 50, 95, 51, 50, 57, 56, 95,
      51, 51, 48, 48, 95, 51, 51, 48, 49, 95, 51, 50, 57, 57, 95, 51, 51, 48, 48>>,
      <<115, 96, 35, 15, 56, 53, 95, 50, 53, 95, 50, 55, 95, 45, 51, 51, 48, 48, 95,
      45, 51, 51, 48, 48, 95, 45, 51, 51, 48, 48, 95, 45, 51, 51, 48, 48, 95, 45, 51,
      51, 48, 48, 95, 45, 51, 51, 48, 48, 95, 45, 51, 51, 48, 48, 95, 45, 51, 51, 48,
      48, 95, 45, 51, 51, 48, 48, 95, 45, 51, 51, 48, 48, 95, 45, 51, 51, 48, 48, 95,
      45, 51, 51, 48, 48, 95, 45, 51, 51, 48, 48, 95, 45, 51, 50, 57, 56>>,
      <<115, 82, 35, 15, 97, 98, 95, 50, 53, 95, 50, 55, 95, 51, 51, 48, 48, 95, 51,
      51, 48, 48, 95, 51, 51, 48, 48, 95, 51, 51, 48, 48, 95, 51, 51, 48, 48, 95, 51,
      51, 48, 48, 95, 51, 51, 48, 48, 95, 51, 51, 48, 48, 95, 51, 51, 48, 48, 95, 51,
      51, 48, 48, 95, 51, 51, 48, 48, 95, 51, 51, 48, 48, 95, 51, 51, 48, 48, 95, 51,
      51, 48, 48>>,
      <<115, 26, 35, 15, 56, 53, 95, 50, 53, 95, 50, 55, 95, 95, 95, 95, 95, 95, 95,
      95, 95, 95, 95, 95, 95, 95>>,
      <<115, 36, 35, 15, 56, 53, 95, 50, 53, 95, 50, 55, 95, 95, 95, 95, 95, 95, 95,
      95, 95, 95, 95, 95, 95, 95, 95, 51, 51, 48, 48, 95, 51, 51, 48, 48>>>>

\* the cell frame of n bytes in the binary layout: soc 80, temperatures 24
\* and 26, readings of 3300 to 3304 mV (the last one cut when n is even)
BinaryCellFrame(n) ==
    [k \in 1..n |-> IF k <= 7 THEN <<115, n, 35, 15, 80, 24, 26>>[k]
                    ELSE IF k % 2 = 0 THEN 228 + (((k - 8) \div 2) % 5)
                    ELSE 12]

\* the timer frame of n bytes
TimerFrame(n) ==
    [k \in 1..n |-> IF k <= 4 THEN <<115, n, 35, 19>>[k] ELSE (7 * k) % 60]

\* the frames of the model: the named ones, the cell frames of every length
\* from 4 to 40 bytes, and timer frames around the two length tests
Frames ==
    <<FrameShort, FrameRuntime, FrameRuntimeShort, FrameDevice, FrameDeviceNoMac,
      FrameCellText, FrameCellBinary, FrameCellBad, FrameTimer, FrameTimerShort,
      FrameDodAck, FrameCellExample>>
    \o CellTextFrames
    \o [k \in 1..37 |-> BinaryCellFrame(k + 3)]
    \o <<TimerFrame(33), TimerFrame(56), TimerFrame(57), TimerFrame(60)>>

FrameIds == 1..Len(Frames)

\* the frames the transport delivers in the runs of the client: one the
\* handler drops, one per opcode that is decoded, one whose decoder assigns
\* nothing, and one of an opcode without decoder
Delivered ==
    {i \in FrameIds : Frames[i] \in {FrameShort, FrameRuntime, FrameDevice, FrameCellText,
                                     FrameCellBad, FrameTimer, FrameDodAck}}

(***************************************************************************)
(* Bounds of the model.                                                    *)
(***************************************************************************)
\* future objects alive at once (the one in flight and the registered ones)
MaxFutures == 3

\* notifications in one run
MaxClock == 2

\* transport write errors in one run
MaxFailures == 1

\* cancellations of the monitoring task in one run
MaxCancels == 1

\* poll iterations of one monitor_continuous call
MaxIterations == 2

\* Command API calls in one run (monitor_continuous and the calls it makes
\* count as one)
MaxCalls == 3

(***************************************************************************)
(* State.                                                                  *)
(***************************************************************************)
VARIABLES
    connected,               \* self.connected
    device_info,             \* self.device_info
    runtime_data,            \* self.runtime_data
    cell_data,               \* self.cell_data
    timer_data,              \* self.timer_data
    notification_callbacks,  \* self.notification_callbacks: opcode -> future (0: no key)
    futures,                 \* the asyncio.Future objects referenced by the table
    api,                     \* the Command API coroutine the task is in
    step,                    \* the await the task is suspended at
    attempt,                 \* get_cell_voltages: 1 in the first request, 2 in the retry
    cmd,                     \* _send_command: cmd of the call in flight (0: none)
    payload,                 \* _send_command: data of the call in flight
    packet,                  \* _send_command: packet of the call in flight
    written,                 \* the packets given to write_gatt_char since the last Command API call began
    response_future,         \* _send_command: response_future of the call in flight
    response,                \* what the last _send_command call returned
    api_result,              \* what the last Command API call returned to its caller
    monitoring,              \* the task is inside monitor_continuous
    iteration,               \* monitor_continuous: iteration
    runtime_acc,             \* monitor_continuous: the list runtime_data
    cell_acc,                \* monitor_continuous: the list cell_data
    flushes,                 \* _save_monitoring_data calls of this monitor_continuous call
    saved,                   \* what the last _save_monitoring_data call wrote
    now,                     \* datetime.now(), as the count of notifications so far
    request,                 \* the device holds the unanswered request of the call in flight
    stale,                   \* opcodes of unanswered requests of calls that have ended
    failures,                \* transport write errors so far
    cancels,                 \* cancellations so far
    calls,                   \* Command API calls so far
    received,                \* the frame the handler was last called with (0: none)
    clock,                   \* monitor_continuous: time.time() - start_time, in half seconds
    duration,                \* monitor_continuous: duration, in half seconds (0: None)
    interval                 \* monitor_continuous: interval, in half seconds

slots == <<device_info, runtime_data, cell_data, timer_data>>

flow ==
    <<api, step, attempt, cmd, payload, packet, written, response_future, response,
      api_result>>

monitor == <<monitoring, iteration, runtime_acc, cell_acc, flushes, saved>>

device == <<request, stale>>

\* duration=None, the default of monitor_continuous: no duration is supplied
NoDuration == -1

timing == <<clock, duration, interval>>

vars ==
    <<connected, slots, notification_callbacks, futures, flow, monitor, now, device,
      failures, cancels, calls, received, timing>>

\* the opcodes the Command API of this model registers a wait for
Opcodes ==
    {CMD_RUNTIME_INFO, CMD_DEVICE_INFO, CMD_SET_DOD, CMD_CELL_VOLTAGES, CMD_GET_TIMERS,
     CMD_ENABLE_ADAPTIVE, CMD_SET_REGION}

FutureIds == 1..MaxFutures

\* asyncio.Future: pending, done with a result, or cancelled.  cause records
\* what the device sent the result frame for: "request" (the request of the
\* call that created the future), "stale" (the request of an earlier call)
\* or "unsolicited".  A "free" entry is no object.
NoFuture == [st |-> "free", result |-> 0, cause |-> "none"]

PendingFuture == [st |-> "pending", result |-> 0, cause |-> "none"]

\* future.done()
Done(f) == futures[f].st \in {"done", "cancelled"}

\* the objects still referenced once the table is tbl
Release(futs, tbl) ==
    [f \in FutureIds |-> IF \E c \in Opcodes : tbl[c] = f THEN futs[f] ELSE NoFuture]

FreeIds == {f \in FutureIds : futures[f].st = "free"}

\* return values of _send_command
RespFalse == [kind |-> "False", frame |-> 0]

RespNone == [kind |-> "None", frame |-> 0]

RespFrame(i) == [kind |-> "frame", frame |-> i]

\* no _send_command call of the running coroutine has returned
RespNothing == [kind |-> "nothing", frame |-> 0]

\* "not response" (a frame of the model is never empty)
Falsy(resp) == resp.kind \in {"False", "None"}

\* return values of the Command API other than a slot
ResNothing == [value |-> "nothing"]

ResTrue == [value |-> "True"]

ResFalse == [value |-> "False"]

ResNone == [value |-> "None"]

\* the call ended with an exception that reached its caller
ResRaised == [value |-> "raised"]

Init ==
    /\ connected = FALSE
    /\ device_info = EmptyDict
    /\ runtime_data = EmptyDict
    /\ cell_data = EmptyDict
    /\ timer_data = EmptyDict
    /\ notification_callbacks = [c \in Opcodes |-> 0]
    /\ futures = [f \in FutureIds |-> NoFuture]
    /\ api = "none"
    /\ step = "idle"
    /\ attempt = 0
    /\ cmd = 0
    /\ payload = <<>>
    /\ packet = <<>>
    /\ written = <<>>
    /\ response_future = 0
    /\ response = RespNothing
    /\ api_result = ResNothing
    /\ monitoring = FALSE
    /\ iteration = 0
    /\ runtime_acc = <<>>
    /\ cell_acc = <<>>
    /\ flushes = 0
    /\ saved = [runtime |-> <<>>, cell |-> <<>>]
    /\ now = 0
    /\ request = FALSE
    /\ stale = {}
    /\ failures = 0
    /\ cancels = 0
    /\ calls = 0
    /\ received = 0
    /\ clock = 0
    /\ duration = NoDuration
    /\ interval = 0

(***************************************************************************)
(* Notification dispatcher: MarstekB2500._notification_handler.            *)
(***************************************************************************)
\* stands for "the decoder assigned nothing"
Probe == [probe |-> TRUE]

\* data[3] of frame i
FrameOpcode(i) == At(Frames[i], 3)

\* lines 205-215: the record the decoder selected by data[3] assigns (with
\* timestamp 0), or Probe
DecodeFrame(data) ==
    IF Len(data) < 4 THEN Probe
    ELSE IF At(data, 3) = CMD_RUNTIME_INFO THEN _decode_runtime_info(data, 0, Probe)
    ELSE IF At(data, 3) = CMD_DEVICE_INFO THEN _decode_device_info(data, Probe)
    ELSE IF At(data, 3) = CMD_CELL_VOLTAGES THEN _decode_cell_voltages(data, 0, Probe)
    ELSE IF At(data, 3) = CMD_GET_TIMERS THEN _decode_timer_info(data, 0, Probe)
    ELSE Probe

RECURSIVE DecodeAll(_)
DecodeAll(fs) == IF fs = <<>> THEN <<>> ELSE <<DecodeFrame(Head(fs))>> \o DecodeAll(Tail(fs))

\* DecodeFrame on each frame of the model, taken once
DecodedFrames == DecodeAll(Frames)

\* the decoder of frame i assigns its slot
Decodes(i) == DecodedFrames[i] # Probe

\* the decoder of frame i calls datetime.now()
TakesTimestamp(i) == Decodes(i) /\ FrameOpcode(i) # CMD_DEVICE_INFO

\* the record frame i decodes to at time t
DecodedAt(i, t) ==
    IF TakesTimestamp(i) THEN [DecodedFrames[i] EXCEPT !.timestamp = t] ELSE DecodedFrames[i]

\* variant of SlotsAfter: a handler that completes the waiter first and
\* leaves the decode for later
SlotsDeferred(i, t) == slots

\* variant of SlotsAfter: a handler that clears the slot of a frame that
\* fails to decode
SlotsCleared(i, t) ==
    IF Len(Frames[i]) < 4 THEN slots
    ELSE <<IF FrameOpcode(i) = CMD_DEVICE_INFO
             THEN (IF Decodes(i) THEN DecodedAt(i, t) ELSE EmptyDict) ELSE device_info,
           IF FrameOpcode(i) = CMD_RUNTIME_INFO
             THEN (IF Decodes(i) THEN DecodedAt(i, t) ELSE EmptyDict) ELSE runtime_data,
           IF FrameOpcode(i) = CMD_CELL_VOLTAGES
             THEN (IF Decodes(i) THEN DecodedAt(i, t) ELSE EmptyDict) ELSE cell_data,
           IF FrameOpcode(i) = CMD_GET_TIMERS
             THEN (IF Decodes(i) THEN DecodedAt(i, t) ELSE EmptyDict) ELSE timer_data>>

\* lines 197-215: the four slots after the handler has dispatched frame i
SlotsAfter(i, t) ==
    IF Len(Frames[i]) < 4 THEN slots
    ELSE <<IF FrameOpcode(i) = CMD_DEVICE_INFO /\ Decodes(i)
             THEN DecodedAt(i, t) ELSE device_info,
           IF FrameOpcode(i) = CMD_RUNTIME_INFO /\ Decodes(i)
             THEN DecodedAt(i, t) ELSE runtime_data,
           IF FrameOpcode(i) = CMD_CELL_VOLTAGES /\ Decodes(i)
             THEN DecodedAt(i, t) ELSE cell_data,
           IF FrameOpcode(i) = CMD_GET_TIMERS /\ Decodes(i)
             THEN DecodedAt(i, t) ELSE timer_data>>

\* variant of Resolved: a handler without the future.done() test of line 220
ResolvedAgain(i) ==
    IF Len(Frames[i]) < 4 THEN 0
    ELSE IF FrameOpcode(i) \notin Opcodes THEN 0
    ELSE notification_callbacks[FrameOpcode(i)]

\* variant of Resolved: a handler without the length test of line 197, which
\* gives a frame without opcode to the waiter of the call in flight
ResolvedShort(i) ==
    IF Len(Frames[i]) < 4
    THEN (IF response_future # 0 /\ futures[response_future].st = "pending"
          THEN response_future ELSE 0)
    ELSE IF FrameOpcode(i) \notin Opcodes THEN 0
    ELSE IF notification_callbacks[FrameOpcode(i)] = 0 THEN 0
    ELSE IF Done(notification_callbacks[FrameOpcode(i)]) THEN 0
    ELSE notification_callbacks[FrameOpcode(i)]

\* variant of Resolved: a handler that gives every frame with an opcode to
\* the waiter of the call in flight, whatever opcode it waits for
ResolvedInFlight(i) ==
    IF Len(Frames[i]) < 4 THEN 0
    ELSE IF response_future = 0 THEN 0
    ELSE IF futures[response_future].st # "pending" THEN 0
    ELSE response_future

\* lines 197-199 and 217-221: the future the handler completes with frame i
\* (0: none)
Resolved(i) ==
    IF Len(Frames[i]) < 4 THEN 0
    ELSE IF FrameOpcode(i) \notin Opcodes THEN 0
    ELSE IF notification_callbacks[FrameOpcode(i)] = 0 THEN 0
    ELSE IF Done(notification_callbacks[FrameOpcode(i)]) THEN 0
    ELSE notification_callbacks[FrameOpcode(i)]

\* variant of FuturesAfter: a handler that completes the waiter only when the
\* frame decoded
FuturesIfDecoded(i, cause) ==
    IF Resolved(i) = 0 \/ ~Decodes(i) THEN futures
    ELSE [futures EXCEPT ![Resolved(i)] = [st |-> "done", result |-> i, cause |-> cause]]

\* future.set_result(data)
FuturesAfter(i, cause) ==
    IF Resolved(i) = 0 THEN futures
    ELSE [futures EXCEPT ![Resolved(i)] = [st |-> "done", result |-> i, cause |-> cause]]

\* what the device may have sent frame i for
Causes(i) ==
    {"unsolicited"}
        \cup (IF Len(Frames[i]) >= 4 /\ request /\ FrameOpcode(i) = cmd
              THEN {"request"} ELSE {})
        \cup (IF Len(Frames[i]) >= 4 /\ FrameOpcode(i) \in stale THEN {"stale"} ELSE {})

\* the transport calls the handler with frame i (the handler runs to its end
\* on the event loop: no await)
_notification_handler(i, cause) ==
    /\ UNCHANGED timing
    /\ connected
    /\ cause \in Causes(i)
    /\ now < MaxClock
    /\ device_info' = SlotsAfter(i, now)[1]
    /\ runtime_data' = SlotsAfter(i, now)[2]
    /\ cell_data' = SlotsAfter(i, now)[3]
    /\ timer_data' = SlotsAfter(i, now)[4]
    /\ now' = now + 1
    /\ received' = i
    /\ futures' = FuturesAfter(i, cause)
    /\ request' = IF cause = "request" THEN FALSE ELSE request
    /\ stale' = IF cause = "stale" THEN stale \ {FrameOpcode(i)} ELSE stale
    /\ UNCHANGED <<connected, notification_callbacks, flow, monitor, failures, cancels,
                   calls>>

(***************************************************************************)
(* _send_command, and the Command API coroutines that call it.             *)
(***************************************************************************)
\* the coroutines that return True once _send_command has returned
Setters == {"set_dod", "set_region", "enable_adaptive_mode"}

\* variant of Returned: a get_cell_voltages that sends its second request
\* whatever the first one returned
ReturnedRetrying(a, n, resp) ==
    /\ response' = resp
    /\ cmd' = 0
    /\ payload' = <<>>
    /\ packet' = <<>>
    /\ response_future' = 0
    /\ IF a \in Setters
       THEN /\ api' = "none"
            /\ step' = "idle"
            /\ attempt' = 0
            /\ api_result' = ResTrue
       ELSE /\ api' = a
            /\ attempt' = n
            /\ api_result' = ResNothing
            /\ step' = IF a = "get_cell_voltages" /\ n = 1 THEN "retry_sleep" ELSE "sleep"

\* the Command API coroutine a (in request n of get_cell_voltages) resumes
\* with resp returned by _send_command and runs to its next await or return
Returned(a, n, resp) ==
    /\ response' = resp
    /\ cmd' = 0
    /\ payload' = <<>>
    /\ packet' = <<>>
    /\ response_future' = 0
    /\ IF a \in Setters
       THEN /\ api' = "none"
            /\ step' = "idle"
            /\ attempt' = 0
            /\ api_result' = ResTrue
       ELSE /\ api' = a
            /\ attempt' = n
            /\ api_result' = ResNothing
            /\ step' = IF a = "get_cell_voltages" /\ n = 1 /\ Falsy(resp)
                       THEN "retry_sleep" ELSE "sleep"

\* variant of Cleanup: a _send_command without the finally clause
CleanupOmitted == UNCHANGED <<notification_callbacks, futures>>

\* lines 185-186 (and 113-114): if cmd in self.notification_callbacks: del
Cleanup ==
    /\ notification_callbacks' = [notification_callbacks EXCEPT ![cmd] = 0]
    /\ futures' = Release(futures, notification_callbacks')

\* the request of the call in flight, if the device still holds it, is from
\* now on the request of an ended call
Abandon ==
    /\ request' = FALSE
    /\ stale' = IF request THEN stale \cup {cmd} ELSE stale

\* lines 156-171: _send_command(c, d) called from a, up to the await of
\* write_gatt_char, or to its return when not connected
SendCall(a, n, c, d) ==
    /\ IF ~connected
       THEN /\ Returned(a, n, RespFalse)
            /\ written' = IF n = 2 THEN written ELSE <<>>
            /\ UNCHANGED <<notification_callbacks, futures>>
       ELSE /\ FreeIds # {}
            /\ LET f == CHOOSE x \in FreeIds : \A y \in FreeIds : x <= y
               IN  /\ notification_callbacks' = [notification_callbacks EXCEPT ![c] = f]
                   /\ futures' = Release([futures EXCEPT ![f] = PendingFuture],
                                         notification_callbacks')
                   /\ response_future' = f
            /\ cmd' = c
            /\ payload' = d
            /\ packet' = _create_command(c, d)
            /\ written' = IF n = 2 THEN Append(written, packet') ELSE <<packet'>>
            /\ api' = a
            /\ attempt' = n
            /\ step' = "write"
            /\ api_result' = ResNothing
            /\ response' = RespNothing

Idle == api = "none" /\ step = "idle"

\* lines 598-600
get_device_info ==
    /\ UNCHANGED timing
    /\ Idle
    /\ calls < MaxCalls
    /\ calls' = calls + 1
    /\ SendCall("get_device_info", 0, CMD_DEVICE_INFO, <<1>>)
    /\ UNCHANGED <<connected, slots, monitor, now, device, failures, cancels, received>>

\* lines 604-606
get_runtime_info ==
    /\ UNCHANGED timing
    /\ Idle
    /\ calls < MaxCalls
    /\ calls' = calls + 1
    /\ SendCall("get_runtime_info", 0, CMD_RUNTIME_INFO, <<1>>)
    /\ UNCHANGED <<connected, slots, monitor, now, device, failures, cancels, received>>

\* lines 610-612
get_timer_settings ==
    /\ UNCHANGED timing
    /\ Idle
    /\ calls < MaxCalls
    /\ calls' = calls + 1
    /\ SendCall("get_timer_settings", 0, CMD_GET_TIMERS, <<1>>)
    /\ UNCHANGED <<connected, slots, monitor, now, device, failures, cancels, received>>

\* lines 470-476
get_cell_voltages ==
    /\ UNCHANGED timing
    /\ Idle
    /\ calls < MaxCalls
    /\ calls' = calls + 1
    /\ SendCall("get_cell_voltages", 1, CMD_CELL_VOLTAGES, <<0>>)
    /\ UNCHANGED <<connected, slots, monitor, now, device, failures, cancels, received>>

\* arguments of set_dod in this model
DodInputs == {5, 50}

\* variant of set_dod: a setter without the range test of line 618
set_dodUnchecked(dod_value) ==
    /\ UNCHANGED timing
    /\ Idle
    /\ calls < MaxCalls
    /\ calls' = calls + 1
    /\ SendCall("set_dod", 0, CMD_SET_DOD, <<dod_value>>)
    /\ UNCHANGED <<connected, slots, monitor, now, device, failures, cancels, received>>

\* lines 616-624
set_dod(dod_value) ==
    /\ UNCHANGED timing
    /\ Idle
    /\ calls < MaxCalls
    /\ calls' = calls + 1
    /\ IF ~(10 <= dod_value /\ dod_value <= 100)
       THEN /\ api_result' = ResFalse
            /\ written' = <<>>
            /\ UNCHANGED <<notification_callbacks, futures, api, step, attempt, cmd, payload,
                           packet, response_future, response>>
       ELSE SendCall("set_dod", 0, CMD_SET_DOD, <<dod_value>>)
    /\ UNCHANGED <<connected, slots, monitor, now, device, failures, cancels, received>>

\* arguments of set_region in this model
RegionInputs == {0, 1, 2, 3}

\* lines 638-646
set_region(region) ==
    /\ UNCHANGED timing
    /\ Idle
    /\ calls < MaxCalls
    /\ calls' = calls + 1
    /\ IF region \notin {0, 1, 2}
       THEN /\ api_result' = ResFalse
            /\ written' = <<>>
            /\ UNCHANGED <<notification_callbacks, futures, api, step, attempt, cmd, payload,
                           packet, response_future, response>>
       ELSE SendCall("set_region", 0, CMD_SET_REGION, <<region>>)
    /\ UNCHANGED <<connected, slots, monitor, now, device, failures, cancels, received>>

\* variant of enable_adaptive_mode: the flag sent as it is (1 to enable)
enable_adaptive_modePlain(enable) ==
    /\ UNCHANGED timing
    /\ Idle
    /\ calls < MaxCalls
    /\ calls' = calls + 1
    /\ SendCall("enable_adaptive_mode", 0, CMD_ENABLE_ADAPTIVE,
                <<IF enable THEN 1 ELSE 0>>)
    /\ UNCHANGED <<connected, slots, monitor, now, device, failures, cancels, received>>

\* lines 648-653
enable_adaptive_mode(enable) ==
    /\ UNCHANGED timing
    /\ Idle
    /\ calls < MaxCalls
    /\ calls' = calls + 1
    /\ SendCall("enable_adaptive_mode", 0, CMD_ENABLE_ADAPTIVE,
                <<IF enable THEN 0 ELSE 1>>)
    /\ UNCHANGED <<connected, slots, monitor, now, device, failures, cancels, received>>

\* lines 171-174: write_gatt_char returns, the task goes on to wait_for
WriteDone ==
    /\ UNCHANGED timing
    /\ step = "write"
    /\ step' = "wait"
    /\ request' = TRUE
    /\ UNCHANGED <<connected, slots, notification_callbacks, futures, api, attempt, cmd, payload,
                   packet, written, response_future, response, api_result, monitor, now,
                   stale,
                   failures, cancels, calls, received>>

\* a variant of _save_monitoring_data that leaves out the oldest entry
_save_monitoring_dataTail(runtime_list, cell_list) ==
    [runtime |-> IF runtime_list # <<>> THEN Tail(runtime_list) ELSE saved.runtime,
     cell |-> IF cell_list # <<>> THEN Tail(cell_list) ELSE saved.cell]

\* lines 712-762: the runtime and the cell file are written when their list
\* is not empty
_save_monitoring_data(runtime_list, cell_list) ==
    [runtime |-> IF runtime_list # <<>> THEN runtime_list ELSE saved.runtime,
     cell |-> IF cell_list # <<>> THEN cell_list ELSE saved.cell]

\* variant of PeriodicSave: a save in every fifth iteration
PeriodicSaveFifth ==
    iteration % 5 = 0

\* line 697: save_data and iteration % 10 == 0
PeriodicSave ==
    iteration % 10 = 0

\* variant of MonitorExit: a monitor_continuous that returns without the
\* finally clause
MonitorExitUnsaved ==
    /\ UNCHANGED <<saved, flushes>>
    /\ monitoring' = FALSE
    /\ iteration' = 0
    /\ runtime_acc' = <<>>
    /\ cell_acc' = <<>>
    /\ api' = "none"
    /\ step' = "idle"
    /\ attempt' = 0
    /\ api_result' = ResNone
    /\ response' = RespNothing

\* lines 707-710: the finally clause of monitor_continuous, and its return
MonitorExit ==
    /\ saved' = _save_monitoring_data(runtime_acc, cell_acc)
    /\ flushes' = flushes + 1
    /\ monitoring' = FALSE
    /\ iteration' = 0
    /\ runtime_acc' = <<>>
    /\ cell_acc' = <<>>
    /\ api' = "none"
    /\ step' = "idle"
    /\ attempt' = 0
    /\ api_result' = ResNone
    /\ response' = RespNothing

\* write_gatt_char raises.  A BleakError makes _send_command return False
\* (lines 189-191); any other exception leaves _send_command and the get_* or
\* set_* coroutine and reaches the caller, or the handlers of
\* monitor_continuous (lines 705-710).  connect (lines 109-117) catches both,
\* cleans up and goes on to its settle delay
WriteError(bleak) ==
    /\ UNCHANGED timing
    /\ step = "write"
    /\ failures < MaxFailures
    /\ failures' = failures + 1
    /\ IF api = "connect"
       THEN /\ Cleanup
            /\ step' = "settle"
            /\ cmd' = 0
            /\ payload' = <<>>
            /\ packet' = <<>>
            /\ response_future' = 0
            /\ UNCHANGED <<api, attempt, response, api_result, monitor>>
       ELSE IF bleak
       THEN /\ Returned(api, attempt, RespFalse)
            /\ UNCHANGED <<notification_callbacks, futures, monitor>>
       ELSE /\ cmd' = 0
            /\ payload' = <<>>
            /\ packet' = <<>>
            /\ response_future' = 0
            /\ UNCHANGED <<notification_callbacks, futures>>
            /\ IF monitoring
               THEN MonitorExit
               ELSE /\ api' = "none"
                    /\ step' = "idle"
                    /\ attempt' = 0
                    /\ api_result' = ResRaised
                    /\ response' = RespNothing
                    /\ UNCHANGED monitor
    /\ UNCHANGED written
    /\ UNCHANGED <<connected, slots, now, device, cancels, calls, received>>

\* wait_for returns the future's result: lines 178-179 and 183-186 (connect:
\* lines 105-106 and 111-117)
WaitDone ==
    /\ UNCHANGED timing
    /\ step = "wait"
    /\ futures[response_future].st = "done"
    /\ Cleanup
    /\ Abandon
    /\ IF api = "connect"
       THEN /\ step' = "settle"
            /\ cmd' = 0
            /\ payload' = <<>>
            /\ packet' = <<>>
            /\ response_future' = 0
            /\ UNCHANGED <<api, attempt, response, api_result>>
       ELSE Returned(api, attempt, RespFrame(futures[response_future].result))
    /\ UNCHANGED written
    /\ UNCHANGED <<connected, slots, monitor, now, failures, cancels, calls, received>>

\* the deadline of wait_for passes with the future pending: wait_for cancels
\* the future; the task resumes in a later turn of the event loop
WaitTimeout ==
    /\ UNCHANGED timing
    /\ step = "wait"
    /\ futures[response_future].st = "pending"
    /\ futures' = [futures EXCEPT ![response_future].st = "cancelled"]
    /\ step' = "timedout"
    /\ UNCHANGED <<connected, slots, notification_callbacks, api, attempt, cmd, payload, packet,
                   written, response_future, response, api_result, monitor, now, device,
                   failures, cancels, calls, received>>

\* the task resumes with TimeoutError: lines 180-186 (connect: 107-117)
TimeoutResume ==
    /\ UNCHANGED timing
    /\ step = "timedout"
    /\ Cleanup
    /\ Abandon
    /\ IF api = "connect"
       THEN /\ step' = "settle"
            /\ cmd' = 0
            /\ payload' = <<>>
            /\ packet' = <<>>
            /\ response_future' = 0
            /\ UNCHANGED <<api, attempt, response, api_result>>
       ELSE Returned(api, attempt, RespNone)
    /\ UNCHANGED written
    /\ UNCHANGED <<connected, slots, monitor, now, failures, cancels, calls, received>>

\* lines 478-482: the delay before the retry ends, the retry is sent
RetrySleepDone ==
    /\ UNCHANGED timing
    /\ step = "retry_sleep"
    /\ SendCall("get_cell_voltages", 2, CMD_CELL_VOLTAGES, <<1>>)
    /\ UNCHANGED <<connected, slots, monitor, now, device, failures, cancels, calls, received>>

\* the slot a get_* coroutine returns
SlotOf(a) ==
    IF a = "get_device_info" THEN device_info
    ELSE IF a = "get_runtime_info" THEN runtime_data
    ELSE IF a = "get_timer_settings" THEN timer_data
    ELSE cell_data

(***************************************************************************)
(* monitor_continuous and _save_monitoring_data.                           *)
(***************************************************************************)
\* lines 662-685: the call, the first pass of the loop head (elapsed is 0
\* and below the duration) and get_runtime_info up to its first await
monitor_continuous ==
    /\ UNCHANGED timing
    /\ Idle
    /\ calls < MaxCalls
    /\ calls' = calls + 1
    /\ monitoring' = TRUE
    /\ iteration' = 1
    /\ runtime_acc' = <<>>
    /\ cell_acc' = <<>>
    /\ flushes' = 0
    /\ SendCall("get_runtime_info", 0, CMD_RUNTIME_INFO, <<1>>)
    /\ UNCHANGED <<connected, slots, saved, now, device, failures, cancels, received>>

\* the delay that ends a get_* coroutine is over (lines 601-602, 607-608,
\* 613-614, 484-485): it returns its slot.  Inside monitor_continuous the loop
\* body goes on (lines 686-701) to its next await
SleepDone ==
    /\ UNCHANGED timing
    /\ step = "sleep"
    /\ IF ~monitoring
       THEN /\ api' = "none"
            /\ step' = "idle"
            /\ attempt' = 0
            /\ api_result' = SlotOf(api)
            /\ response' = RespNothing
            /\ UNCHANGED <<notification_callbacks, futures, cmd, payload, packet, written,
                           response_future, monitor>>
       ELSE IF api = "get_runtime_info"
       THEN /\ runtime_acc' = IF runtime_data # EmptyDict
                              THEN Append(runtime_acc, runtime_data) ELSE runtime_acc
            /\ SendCall("get_cell_voltages", 1, CMD_CELL_VOLTAGES, <<0>>)
            /\ UNCHANGED <<monitoring, iteration, cell_acc, flushes, saved>>
       ELSE /\ cell_acc' = IF cell_data # EmptyDict
                           THEN Append(cell_acc, cell_data) ELSE cell_acc
            /\ IF PeriodicSave
               THEN /\ saved' = _save_monitoring_data(runtime_acc, cell_acc')
                    /\ flushes' = flushes + 1
               ELSE UNCHANGED <<saved, flushes>>
            /\ api' = "monitor_continuous"
            /\ step' = "interval"
            /\ attempt' = 0
            /\ UNCHANGED <<notification_callbacks, futures, cmd, payload, packet, written,
                           response_future, response, api_result, monitoring, iteration,
                           runtime_acc>>
    /\ UNCHANGED <<connected, slots, now, device, failures, cancels, calls, received>>

\* lines 672-685 and 701: asyncio.sleep(interval) is over and the loop head
\* runs again; expired says whether elapsed has reached the duration
IntervalDone(expired) ==
    /\ UNCHANGED timing
    /\ step = "interval"
    /\ IF expired
       THEN /\ MonitorExit
            /\ UNCHANGED <<notification_callbacks, futures, cmd, payload, packet, written,
                           response_future>>
       ELSE /\ iteration < MaxIterations
            /\ iteration' = iteration + 1
            /\ SendCall("get_runtime_info", 0, CMD_RUNTIME_INFO, <<1>>)
            /\ UNCHANGED <<monitoring, runtime_acc, cell_acc, flushes, saved>>
    /\ UNCHANGED <<connected, slots, now, device, failures, cancels, calls, received>>

\* the monitoring task is cancelled at the await it is suspended at:
\* CancelledError goes through _send_command (its finally clause only from
\* inside wait_for, lines 175-186) to lines 703-710.  A write that is
\* cancelled has not reached the device
Cancel ==
    /\ UNCHANGED timing
    /\ monitoring
    /\ cancels < MaxCancels
    /\ cancels' = cancels + 1
    /\ IF step = "write"
       THEN UNCHANGED <<notification_callbacks, futures, request, stale>>
       ELSE IF step = "wait"
       THEN /\ notification_callbacks' = [notification_callbacks EXCEPT ![cmd] = 0]
            /\ futures' = Release(futures, notification_callbacks')
            /\ Abandon
       ELSE IF step = "timedout"
       THEN /\ Cleanup
            /\ Abandon
       ELSE UNCHANGED <<notification_callbacks, futures, request, stale>>
    /\ cmd' = 0
    /\ payload' = <<>>
    /\ packet' = <<>>
    /\ response_future' = 0
    /\ UNCHANGED written
    /\ MonitorExit
    /\ UNCHANGED <<connected, slots, now, failures, calls, received>>

(***************************************************************************)
(* connect and disconnect.                                                 *)
(***************************************************************************)
\* lines 71-102 and 120-123: connect up to the await of the initialization
\* write; BleakError from the transport's connect returns False
connect(ok) ==
    /\ UNCHANGED timing
    /\ Idle
    /\ calls < MaxCalls
    /\ calls' = calls + 1
    /\ ~connected
    /\ IF ok
       THEN /\ FreeIds # {}
            /\ connected' = TRUE
            /\ LET f == CHOOSE x \in FreeIds : \A y \in FreeIds : x <= y
               IN  /\ notification_callbacks' =
                          [notification_callbacks EXCEPT ![CMD_DEVICE_INFO] = f]
                   /\ futures' = Release([futures EXCEPT ![f] = PendingFuture],
                                         notification_callbacks')
                   /\ response_future' = f
            /\ cmd' = CMD_DEVICE_INFO
            /\ payload' = <<1>>
            /\ packet' = _create_command(CMD_DEVICE_INFO, <<1>>)
            /\ written' = <<packet'>>
            /\ api' = "connect"
            /\ step' = "write"
            /\ api_result' = ResNothing
            /\ response' = RespNothing
            /\ UNCHANGED attempt
       ELSE /\ connected' = FALSE
            /\ api_result' = ResFalse
            /\ written' = <<>>
            /\ UNCHANGED <<notification_callbacks, futures, api, step, attempt, cmd, payload,
                           packet, response_future, response>>
    /\ UNCHANGED <<slots, monitor, now, device, failures, cancels, received>>

\* lines 116-119: the settle delay is over, connect returns True
SettleDone ==
    /\ UNCHANGED timing
    /\ step = "settle"
    /\ api' = "none"
    /\ step' = "idle"
    /\ api_result' = ResTrue
    /\ UNCHANGED <<connected, slots, notification_callbacks, futures, attempt, cmd, payload,
                   packet, written, response_future, response, monitor, now, device,
                   failures,
                   cancels, calls, received>>

\* lines 125-134: stop_notify and disconnect; on BleakError the flag stays
\* set.  The responses the device still owes are lost with the link
disconnect(ok) ==
    /\ UNCHANGED timing
    /\ Idle
    /\ calls < MaxCalls
    /\ calls' = calls + 1
    /\ connected
    /\ connected' = ~ok
    /\ stale' = IF ok THEN {} ELSE stale
    /\ api_result' = ResNone
    /\ written' = <<>>
    /\ UNCHANGED <<slots, notification_callbacks, futures, api, step, attempt, cmd, payload,
                   packet, response_future, response, monitor, now, request, failures,
                   cancels, received>>

Next ==
    \/ \E ok \in BOOLEAN : connect(ok)
    \/ \E ok \in BOOLEAN : disconnect(ok)
    \/ get_device_info
    \/ get_runtime_info
    \/ get_timer_settings
    \/ get_cell_voltages
    \/ \E v \in DodInputs : set_dod(v)
    \/ monitor_continuous
    \/ WriteDone
    \/ \E bleak \in BOOLEAN : WriteError(bleak)
    \/ WaitDone
    \/ WaitTimeout
    \/ TimeoutResume
    \/ RetrySleepDone
    \/ SleepDone
    \/ \E expired \in BOOLEAN : IntervalDone(expired)
    \/ Cancel
    \/ SettleDone
    \/ \E i \in Delivered, cause \in {"request", "stale", "unsolicited"} :
           _notification_handler(i, cause)

Spec == Init /\ [][Next]_vars

(***************************************************************************)
(* The dispatcher alone: the link is up (connect has returned True, its    *)
(* initialization request was never answered), no command is in flight,    *)
(* and the transport delivers any frame of the table.                      *)
(***************************************************************************)
FrameInit ==
    /\ connected = TRUE
    /\ device_info = EmptyDict
    /\ runtime_data = EmptyDict
    /\ cell_data = EmptyDict
    /\ timer_data = EmptyDict
    /\ notification_callbacks = [c \in Opcodes |-> 0]
    /\ futures = [f \in FutureIds |-> NoFuture]
    /\ api = "none"
    /\ step = "idle"
    /\ attempt = 0
    /\ cmd = 0
    /\ payload = <<>>
    /\ packet = <<>>
    /\ written = <<_create_command(CMD_DEVICE_INFO, <<1>>)>>
    /\ response_future = 0
    /\ response = RespNothing
    /\ api_result = ResTrue
    /\ monitoring = FALSE
    /\ iteration = 0
    /\ runtime_acc = <<>>
    /\ cell_acc = <<>>
    /\ flushes = 0
    /\ saved = [runtime |-> <<>>, cell |-> <<>>]
    /\ now = 0
    /\ request = FALSE
    /\ stale = {CMD_DEVICE_INFO}
    /\ failures = 0
    /\ cancels = 0
    /\ calls = 1
    /\ received = 0
    /\ clock = 0
    /\ duration = NoDuration
    /\ interval = 0

FrameNext ==
    \E i \in FrameIds, cause \in {"stale", "unsolicited"} : _notification_handler(i, cause)

FrameSpec == FrameInit /\ [][FrameNext]_vars

(***************************************************************************)
(* monitor_continuous against the clock: one step per pass of the loop     *)
(* head, per pair of fetches and per interval sleep.  Times are in half    *)
(* seconds; a response, when there is one, arrives at once.                *)
(***************************************************************************)
\* line 177: the deadline of a runtime request (3.0 s)
RuntimeTimeout == 6

\* line 177: the deadline of a cell request (5.0 s)
CellTimeout == 10

\* line 607: asyncio.sleep(1) of get_runtime_info
RuntimeDelay == 2

\* line 481: asyncio.sleep(1.0) before the retry
RetryDelay == 2

\* line 484: asyncio.sleep(0.5) of get_cell_voltages
CellDelay == 1

\* the polls of one run
MaxPolls == 21

\* (duration, interval) of the calls: 125 s every 60 s, no duration every
\* second, and a duration of 0 every second
Schedules == {<<250, 120>>, <<NoDuration, 2>>, <<0, 2>>}

\* the responses of one run
MaxAnswers == 6

\* the device answers until it falls silent: no request of this run has
\* gone unanswered, and it has responses left
Answering ==
    /\ stale \cap {CMD_RUNTIME_INFO, CMD_CELL_VOLTAGES} = {}
    /\ now < MaxAnswers

\* how a fetch can go: the link is down, the request is answered, the retry
\* is answered (get_cell_voltages), or no answer comes
RuntimeOutcomes == IF connected THEN {"answered", "timeout"} ELSE {"refused"}

CellOutcomes == IF connected THEN {"answered", "retry", "timeout"} ELSE {"refused"}

\* lines 604-608 and 156-191: the time get_runtime_info takes
RuntimeFetchTime(r) ==
    IF r = "timeout" THEN RuntimeTimeout + RuntimeDelay ELSE RuntimeDelay

\* lines 470-485 and 156-191: the time get_cell_voltages takes
CellFetchTime(c) ==
    IF c = "answered" THEN CellDelay
    ELSE IF c = "retry" THEN CellTimeout + RetryDelay + CellDelay
    ELSE IF c = "timeout" THEN CellTimeout + RetryDelay + CellTimeout + CellDelay
    ELSE RetryDelay + CellDelay

RuntimeFrameId == CHOOSE i \in FrameIds : Frames[i] = FrameRuntime

CellFrameId == CHOOSE i \in FrameIds : Frames[i] = FrameCellText

\* lines 662-671: monitor_continuous(interval, True, duration) has been
\* called on a client whose slots are empty and is at its first loop head
MonitorInit ==
    /\ connected \in BOOLEAN
    /\ device_info = EmptyDict
    /\ runtime_data = EmptyDict
    /\ cell_data = EmptyDict
    /\ timer_data = EmptyDict
    /\ notification_callbacks = [c \in Opcodes |-> 0]
    /\ futures = [f \in FutureIds |-> NoFuture]
    /\ api = "monitor_continuous"
    /\ step = "loop_head"
    /\ attempt = 0
    /\ cmd = 0
    /\ payload = <<>>
    /\ packet = <<>>
    /\ written = <<>>
    /\ response_future = 0
    /\ response = RespNothing
    /\ api_result = ResNothing
    /\ monitoring = TRUE
    /\ iteration = 0
    /\ runtime_acc = <<>>
    /\ cell_acc = <<>>
    /\ flushes = 0
    /\ saved = [runtime |-> <<>>, cell |-> <<>>]
    /\ now = 0
    /\ request = FALSE
    /\ stale = IF connected THEN {CMD_DEVICE_INFO} ELSE {}
    /\ failures = 0
    /\ cancels = 0
    /\ calls = IF connected THEN 2 ELSE 1
    /\ received = 0
    /\ clock = 0
    /\ \E s \in Schedules : duration = s[1] /\ interval = s[2]

\* lines 672-682 and 707-710: the loop head.  iteration counts the passes
\* that went on to the fetches.  `if duration and elapsed >= duration`: None
\* and 0 are both false
LoopHead ==
    /\ step = "loop_head"
    /\ IF duration \notin {NoDuration, 0} /\ clock >= duration
       THEN MonitorExit
       ELSE /\ iteration < MaxPolls
            /\ iteration' = iteration + 1
            /\ step' = "poll"
            /\ UNCHANGED <<api, attempt, response, api_result, monitoring, runtime_acc,
                           cell_acc, flushes, saved>>
    /\ UNCHANGED <<connected, slots, notification_callbacks, futures, cmd, payload, packet, written,
                   response_future, now, device, failures, cancels, calls, received,
                   timing>>

\* lines 684-698: get_runtime_info and get_cell_voltages with outcomes r and
\* c, the appends and the periodic save
Poll(r, c) ==
    /\ step = "poll"
    /\ r \in RuntimeOutcomes
    /\ c \in CellOutcomes
    /\ LET got == IF r = "answered" THEN 1 ELSE 0
           cgot == IF c \in {"answered", "retry"} THEN 1 ELSE 0
       IN  /\ got = 1 => Answering
           /\ cgot = 1 => Answering /\ r # "timeout" /\ now + got < MaxAnswers
           /\ now' = now + got + cgot
           /\ runtime_data' = IF got = 1 THEN DecodedAt(RuntimeFrameId, now)
                              ELSE runtime_data
           /\ cell_data' = IF cgot = 1 THEN DecodedAt(CellFrameId, now + got)
                           ELSE cell_data
           /\ received' = IF cgot = 1 THEN CellFrameId
                          ELSE IF got = 1 THEN RuntimeFrameId ELSE received
    /\ runtime_acc' = IF runtime_data' # EmptyDict
                      THEN Append(runtime_acc, runtime_data') ELSE runtime_acc
    /\ cell_acc' = IF cell_data' # EmptyDict
                   THEN Append(cell_acc, cell_data') ELSE cell_acc
    /\ IF PeriodicSave
       THEN /\ saved' = _save_monitoring_data(runtime_acc', cell_acc')
            /\ flushes' = flushes + 1
       ELSE UNCHANGED <<saved, flushes>>
    /\ written' = IF c = "refused" THEN <<>>
                  ELSE IF c = "answered"
                  THEN <<_create_command(CMD_CELL_VOLTAGES, <<0>>)>>
                  ELSE <<_create_command(CMD_CELL_VOLTAGES, <<0>>),
                         _create_command(CMD_CELL_VOLTAGES, <<1>>)>>
    /\ stale' = stale \cup (IF r = "timeout" THEN {CMD_RUNTIME_INFO} ELSE {})
                      \cup (IF c \in {"retry", "timeout"} THEN {CMD_CELL_VOLTAGES} ELSE {})
    /\ clock' = clock + RuntimeFetchTime(r) + CellFetchTime(c)
    /\ step' = "interval"
    /\ UNCHANGED <<connected, device_info, timer_data, notification_callbacks, futures, api,
                   attempt, cmd, payload, packet, response_future, response, api_result,
                   monitoring, iteration, request, failures, cancels, calls, duration,
                   interval>>

\* line 701: asyncio.sleep(interval)
IntervalSleep ==
    /\ step = "interval"
    /\ clock' = clock + interval
    /\ step' = "loop_head"
    /\ UNCHANGED <<connected, slots, notification_callbacks, futures, api, attempt, cmd, payload,
                   packet, written, response_future, response, api_result, monitor, now,
                   device, failures, cancels, calls, received, duration, interval>>

MonitorNext ==
    \/ LoopHead
    \/ \E r \in {"answered", "timeout", "refused"},
          c \in {"answered", "retry", "timeout", "refused"} : Poll(r, c)
    \/ IntervalSleep

MonitorSpec == MonitorInit /\ [][MonitorNext]_vars

(***************************************************************************)
(* The setters and get_cell_voltages on one client, without the monitoring *)
(* loop: every argument of the setters, every outcome of a write and of a  *)
(* wait.                                                                   *)
(***************************************************************************)
\* arguments of set_dod: in and around the range of line 618
DodValues == {5, 9, 10, 50, 100, 101, 150}

\* the frames the device sends in these runs
Answers == {i \in FrameIds : Frames[i] \in {FrameCellText, FrameDodAck}}

CommandNext ==
    \/ \E ok \in BOOLEAN : connect(ok)
    \/ \E v \in DodValues : set_dod(v)
    \/ \E r \in RegionInputs : set_region(r)
    \/ \E e \in BOOLEAN : enable_adaptive_mode(e)
    \/ get_cell_voltages
    \/ WriteDone
    \/ \E bleak \in BOOLEAN : WriteError(bleak)
    \/ WaitDone
    \/ WaitTimeout
    \/ TimeoutResume
    \/ RetrySleepDone
    \/ SleepDone
    \/ SettleDone
    \/ \E i \in Answers, cause \in {"request", "stale", "unsolicited"} :
           _notification_handler(i, cause)

CommandSpec == Init /\ [][CommandNext]_vars

(***************************************************************************)
(* The frame codec alone: _create_command called with any opcode and with  *)
(* the payloads of the bound.                                              *)
(***************************************************************************)
CodecOpcodes == 0..255

\* the bytes of the payloads: the two arguments of the Command API, the
\* header byte and the largest byte
PayloadBytes == {0, 1, 115, 255}

\* the longest payload
MaxPayload == 2

Payloads == UNION {[1..n -> PayloadBytes] : n \in 0..MaxPayload}

\* _create_command(cmd, payload) is about to be called
CodecInit ==
    /\ connected = FALSE
    /\ device_info = EmptyDict
    /\ runtime_data = EmptyDict
    /\ cell_data = EmptyDict
    /\ timer_data = EmptyDict
    /\ notification_callbacks = [c \in Opcodes |-> 0]
    /\ futures = [f \in FutureIds |-> NoFuture]
    /\ api = "none"
    /\ step = "idle"
    /\ attempt = 0
    /\ cmd \in CodecOpcodes
    /\ payload \in Payloads
    /\ packet = <<>>
    /\ written = <<>>
    /\ response_future = 0
    /\ response = RespNothing
    /\ api_result = ResNothing
    /\ monitoring = FALSE
    /\ iteration = 0
    /\ runtime_acc = <<>>
    /\ cell_acc = <<>>
    /\ flushes = 0
    /\ saved = [runtime |-> <<>>, cell |-> <<>>]
    /\ now = 0
    /\ request = FALSE
    /\ stale = {}
    /\ failures = 0
    /\ cancels = 0
    /\ calls = 0
    /\ received = 0
    /\ clock = 0
    /\ duration = NoDuration
    /\ interval = 0

\* lines 136-154: the call returns its packet
Encode ==
    /\ packet = <<>>
    /\ packet' = _create_command(cmd, payload)
    /\ UNCHANGED <<connected, slots, notification_callbacks, futures, api, step, attempt,
                   cmd, payload, written, response_future, response, api_result, monitor,
                   now, device, failures, cancels, calls, received, timing>>

CodecSpec == CodecInit /\ [][Encode]_vars

(***************************************************************************)
(* Properties.                                                             *)
(***************************************************************************)
\* the frame is long enough to hold an opcode
HasOpcode(i) == Len(Frames[i]) >= 4

\* the handler is called in this step
Notified == now' = now + 1

\* the slot the decoder of opcode c assigns
SlotByOpcode(c) ==
    IF c = CMD_DEVICE_INFO THEN device_info
    ELSE IF c = CMD_RUNTIME_INFO THEN runtime_data
    ELSE IF c = CMD_CELL_VOLTAGES THEN cell_data
    ELSE IF c = CMD_GET_TIMERS THEN timer_data
    ELSE EmptyDict

\* C1: a command issued while a wait for its opcode is still registered is
\* rejected: no step replaces the future registered for an opcode by another
\* future.
C1_WaitNeverReplaced ==
    [][\A c \in Opcodes :
          (notification_callbacks[c] # 0 /\ notification_callbacks'[c] # 0)
              => notification_callbacks'[c] = notification_callbacks[c]]_vars

\* C2: the frame a command's waiter is completed with is never the response
\* to an earlier command that has already ended (timed out) on that opcode.
C2_NoStaleResponseDelivered ==
    \A f \in FutureIds : futures[f].st = "done" => futures[f].cause # "stale"

\* C3: the handler decodes a frame before it completes the waiter: in the
\* step in which a future becomes done with a frame that decodes, the slot of
\* the frame's opcode holds that frame's decode.
C3_DecodedBeforeCompleted ==
    [][\A f \in FutureIds, i \in Delivered :
          (/\ futures[f].st = "pending"
           /\ futures'[f].st = "done"
           /\ futures'[f].result = i
           /\ Decodes(i))
              => SlotByOpcode(FrameOpcode(i))' = DecodedAt(i, now)]_vars

\* a waiter has just been completed with a frame that decoded, and the slot
\* holds the decode
C3_Witness ==
    \E f \in FutureIds :
        /\ futures[f].st = "done"
        /\ received = futures[f].result
        /\ Decodes(received)
        /\ SlotByOpcode(FrameOpcode(received)) = DecodedAt(received, now - 1)

\* C4: a notification of at least 4 bytes whose opcode has an awaiting waiter
\* completes that waiter with the frame, whether or not the frame decodes and
\* whether or not its opcode has a decoder.
C4_WaiterCompletedWhateverDecode ==
    [][\A i \in Delivered :
          (/\ Notified
           /\ received' = i
           /\ HasOpcode(i)
           /\ notification_callbacks[FrameOpcode(i)] # 0
           /\ futures[notification_callbacks[FrameOpcode(i)]].st = "pending")
              => /\ futures'[notification_callbacks[FrameOpcode(i)]].st = "done"
                 /\ futures'[notification_callbacks[FrameOpcode(i)]].result = i]_vars

\* a waiter has just been completed with a frame that assigned no slot
C4_Witness ==
    \E f \in FutureIds :
        /\ futures[f].st = "done"
        /\ received = futures[f].result
        /\ ~Decodes(received)

\* C5: a wait whose deadline passes ends with None and its registration is
\* removed; a frame whose opcode has no registration completes no future and
\* adds no registration; and a wait that is registered later starts pending
\* (no earlier frame is kept for it).
C5_TimeoutRemovesWait ==
    [][/\ (step = "timedout" /\ step' # "timedout")
             => /\ notification_callbacks'[cmd] = 0
                /\ (api # "connect" /\ monitoring' = monitoring) => response' = RespNone
       /\ \A i \in Delivered :
             (/\ Notified
              /\ received' = i
              /\ HasOpcode(i)
              /\ notification_callbacks[FrameOpcode(i)] = 0)
                 => /\ futures' = futures
                    /\ notification_callbacks' = notification_callbacks
       /\ \A c \in Opcodes :
             (/\ notification_callbacks'[c] # notification_callbacks[c]
              /\ notification_callbacks'[c] # 0)
                 => futures'[notification_callbacks'[c]] = PendingFuture]_vars

\* get_runtime_info has timed out and returned the empty slot, and the
\* runtime frame has arrived after that, with no wait registered
C5_Witness ==
    /\ Idle
    /\ calls = 2
    /\ api_result = EmptyDict
    /\ CMD_RUNTIME_INFO \in stale
    /\ notification_callbacks[CMD_RUNTIME_INFO] = 0
    /\ received # 0
    /\ Frames[received] = FrameRuntime
    /\ runtime_data # EmptyDict

\* C6: a waiter gets at most one result: a future that is done keeps its
\* result for as long as it exists, and a notification changes neither the
\* table nor any future that is not awaiting.
C6_ResolveIdempotent ==
    [][/\ \A f \in FutureIds :
             futures[f].st = "done" => (futures'[f] = futures[f] \/ futures'[f] = NoFuture)
       /\ Notified
             => /\ notification_callbacks' = notification_callbacks
                /\ \A f \in FutureIds :
                      futures[f].st # "pending" => futures'[f] = futures[f]]_vars

\* the waiter of get_cell_voltages, completed by the first cell frame, has
\* seen a second cell frame before its task resumed, and keeps the first
C6_Witness ==
    /\ step = "wait"
    /\ cmd = CMD_CELL_VOLTAGES
    /\ futures[response_future].st = "done"
    /\ Frames[futures[response_future].result] = FrameCellBad
    /\ now = 2
    /\ received # 0
    /\ Frames[received] = FrameCellText
    /\ cell_data = DecodedAt(received, 1)

\* C7: a registration lives only while its command is in flight: as long as
\* no task has been cancelled, the table holds a registration for no opcode
\* other than that of the command in flight.
C7_NoRegistrationAfterReturn ==
    cancels = 0 => \A c \in Opcodes : notification_callbacks[c] # 0 => cmd = c

\* C8: when the monitoring task is cancelled during a command, no
\* registration for the command's opcode remains.
C8_CancelLeavesNoRegistration ==
    [][(monitoring /\ ~monitoring' /\ cancels' = cancels + 1 /\ cmd # 0)
          => notification_callbacks'[cmd] = 0]_vars

\* the frames of the table whose decoder assigns nothing, and those whose
\* decoder assigns its slot
FailingFrames ==
    {i \in FrameIds :
        Frames[i] \in {FrameRuntimeShort, FrameTimerShort, FrameDeviceNoMac, FrameCellBad}}

DecodingFrames ==
    {i \in FrameIds :
        Frames[i] \in {FrameRuntime, FrameDevice, FrameCellText, FrameCellBinary, FrameTimer}}

\* the opcodes that have a decoder
DecodedOpcodes == {CMD_RUNTIME_INFO, CMD_DEVICE_INFO, CMD_CELL_VOLTAGES, CMD_GET_TIMERS}

\* C9: a frame that fails to decode leaves the four slots as they were; a
\* frame that decodes replaces the slot of its opcode by its decode and leaves
\* the other three slots as they were.
C9_DecodeTouchesOwnSlotOnly ==
    [][\A i \in FrameIds :
          (Notified /\ received' = i)
              => /\ i \in FailingFrames => slots' = slots
                 /\ i \in DecodingFrames
                       => /\ SlotByOpcode(FrameOpcode(i))' = DecodedAt(i, now)
                          /\ SlotByOpcode(FrameOpcode(i))' # EmptyDict
                          /\ \A c \in DecodedOpcodes \ {FrameOpcode(i)} :
                                SlotByOpcode(c)' = SlotByOpcode(c)]_vars

\* the runtime slot, assigned by the first notification, has outlived a
\* runtime frame of 35 bytes
C9_Witness ==
    /\ now = 2
    /\ received # 0
    /\ Frames[received] = FrameRuntimeShort
    /\ runtime_data # EmptyDict
    /\ runtime_data.timestamp = 0

\* C10: a notification shorter than 4 bytes changes no slot, no future, no
\* registration and nothing of the command-issuing task.
C10_ShortFrameDropped ==
    [][\A i \in Delivered :
          (Notified /\ received' = i /\ ~HasOpcode(i))
              => /\ slots' = slots
                 /\ futures' = futures
                 /\ notification_callbacks' = notification_callbacks
                 /\ flow' = flow
                 /\ monitor' = monitor
                 /\ connected' = connected]_vars

\* a frame of 3 bytes has arrived while the waiter registered by connect was
\* awaiting, and it still is
C10_Witness ==
    /\ calls = 1
    /\ step = "wait"
    /\ futures[response_future].st = "pending"
    /\ received # 0
    /\ ~HasOpcode(received)

(***************************************************************************)
(* monitor_continuous: the final flush.                                    *)
(***************************************************************************)
\* C11: whenever monitor_continuous ends (the duration is reached, the task
\* is cancelled at an await, or a fetch raises), _save_monitoring_data is
\* called once more in that step and writes every accumulator that is not
\* empty, whatever the iteration count is
C11_FinalFlushOnEveryExit ==
    [][(monitoring /\ ~monitoring') =>
           /\ flushes' = flushes + 1
           /\ runtime_acc # <<>> => saved'.runtime = runtime_acc
           /\ cell_acc # <<>> => saved'.cell = cell_acc]_vars

\* monitor_continuous was cancelled in its first iteration, after a runtime
\* record had been appended, and the record was written
C11_Witness ==
    /\ ~monitoring
    /\ cancels = 1
    /\ flushes = 1
    /\ api_result = ResNone
    /\ Len(saved.runtime) = 1

(***************************************************************************)
(* monitor_continuous: the iteration count.                                *)
(***************************************************************************)
\* the ticks 0, interval, 2 * interval, ... that are strictly below the
\* duration
TicksBelowDuration == (duration + interval - 1) \div interval

\* C12: with a duration D > 0 and an interval I > 0 the elapsed time is
\* checked at 0, I, 2I, ... and monitor_continuous ends at the first of these
\* ticks that has reached D, after one poll iteration for each tick below D:
\* three iterations for D = 125 s and I = 60 s
C12_OneIterationPerTickBelowDuration ==
    [][(step = "loop_head" /\ step' # "loop_head" /\ duration > 0) =>
           /\ clock = iteration * interval
           /\ ~monitoring' <=> clock >= duration
           /\ ~monitoring' => iteration = TicksBelowDuration]_vars

(***************************************************************************)
(* The Command API: what is written to the transport.                      *)
(***************************************************************************)
\* byte 3 of a packet, and the bytes between its header and its checksum
PacketOpcode(p) == At(p, 3)

PacketData(p) == SubSeq(p, 5, Len(p) - 1)

\* C13: on a connected client get_cell_voltages first writes opcode 0x0F
\* with payload 0x00; it writes a second packet, opcode 0x0F with payload
\* 0x01, exactly when its first _send_command has ended without a response,
\* and only after that; it never writes more than two packets, and it
\* returns the cell slot as it is when it returns
C13_CellRetryOnlyWithoutResponse ==
    [][(connected /\ (api = "get_cell_voltages" \/ api' = "get_cell_voltages")) =>
           /\ api = "none" =>
                  /\ Len(written') = 1
                  /\ PacketOpcode(written'[1]) = 15
                  /\ PacketData(written'[1]) = <<0>>
           /\ (api = "get_cell_voltages" /\ written' # written) =>
                  /\ step = "retry_sleep"
                  /\ Falsy(response)
                  /\ response_future = 0
                  /\ Len(written) = 1
                  /\ written' = Append(written, written'[2])
                  /\ PacketOpcode(written'[2]) = 15
                  /\ PacketData(written'[2]) = <<1>>
           /\ (step # "retry_sleep" /\ step' = "retry_sleep") <=>
                  (attempt = 1 /\ cmd # 0 /\ cmd' = 0 /\ response'.kind # "frame"
                   /\ api' = "get_cell_voltages")
           /\ (api' = "none" /\ api_result' # ResRaised) => api_result' = cell_data']_vars

\* a get_cell_voltages call whose first request timed out and whose second
\* request was answered has returned the decoded record
C13_Witness ==
    /\ api = "none"
    /\ Len(written) = 2
    /\ PacketData(written[2]) = <<1>>
    /\ failures = 0
    /\ api_result # EmptyDict
    /\ api_result = cell_data

\* C14: a setter whose _send_command failed (the client is not connected, or
\* write_gatt_char raised) does not return True: success is never reported
\* for a packet that was not written
C14_TransportFailureReported ==
    (api = "none" /\ response = RespFalse) => api_result # ResTrue

\* C15: once write_gatt_char has raised a transport error in a Command API
\* call on a connected client (its _send_command returned False), that call
\* gives no further packet to the transport, get_cell_voltages included
C15_NoWriteAfterFailedWrite ==
    [][(connected /\ api # "none" /\ response = RespFalse) => written' = written]_vars

\* C16: set_dod(v) with v outside 10..100 and set_region(r) with r outside
\* {0, 1, 2} return False, give no packet to the transport, register no
\* wait and leave the state of the client as it was
C16_InvalidArgumentRejected ==
    [][\A v \in DodValues \ (10..100), r \in RegionInputs \ {0, 1, 2} :
           (set_dod(v) \/ set_region(r)) =>
               /\ api_result' = ResFalse
               /\ written' = <<>>
               /\ notification_callbacks' = notification_callbacks
               /\ futures' = futures
               /\ slots' = slots
               /\ connected' = connected
               /\ <<api, step, cmd, packet, response_future>>'
                      = <<api, step, cmd, packet, response_future>>]_vars

\* a setter has rejected its argument on a connected client
C16_Witness ==
    /\ connected
    /\ api = "none"
    /\ api_result = ResFalse
    /\ written = <<>>
    /\ \A c \in Opcodes : notification_callbacks[c] = 0

\* the packet of opcode c with the one payload byte b: header, length 6,
\* marker, opcode, payload and a checksum that makes the bytes XOR to 0
OneBytePacket(p, c, b) ==
    /\ Len(p) = 6
    /\ SubSeq(p, 1, 5) = <<115, 6, 35, c, b>>
    /\ XorAll(p) = 0

\* C17: on a connected client a setter with a valid argument gives exactly
\* one packet to the transport: set_dod(v) opcode 0x0B with payload [v] for
\* v in 10..100, set_region(r) opcode 0x02 with payload [r] for r in
\* {0, 1, 2}, enable_adaptive_mode opcode 0x11 with payload 0x00 to enable
\* and 0x01 to disable; nothing more is written while the setter runs
C17_SetterWritesOnePacket ==
    [][connected =>
           /\ \A v \in DodValues \cap (10..100) :
                  set_dod(v) => /\ Len(written') = 1
                                /\ OneBytePacket(written'[1], 11, v)
           /\ set_dod(50) => written' = <<(<<115, 6, 35, 11, 50, 111>>)>>
           /\ \A r \in {0, 1, 2} :
                  set_region(r) => /\ Len(written') = 1
                                   /\ OneBytePacket(written'[1], 2, r)
           /\ enable_adaptive_mode(TRUE) => written' = <<(<<115, 6, 35, 17, 0, 71>>)>>
           /\ enable_adaptive_mode(FALSE) => written' = <<(<<115, 6, 35, 17, 1, 70>>)>>
           /\ api \in Setters => written' = written]_vars

\* set_dod(100), set_region(2) or enable_adaptive_mode(False) has written its
\* packet, was acknowledged or timed out, and has returned True
C17_Witness ==
    /\ connected
    /\ api = "none"
    /\ api_result = ResTrue
    /\ response \in {RespNone} \cup {RespFrame(i) : i \in FrameIds}
    /\ written \in {<<(<<115, 6, 35, 11, 100, 57>>)>>, <<(<<115, 6, 35, 2, 2, 86>>)>>,
                     <<(<<115, 6, 35, 17, 1, 70>>)>>}

(***************************************************************************)
(* The frame codec.                                                        *)
(***************************************************************************)
\* C18: for every opcode in 0..255 and every payload the bytes of the
\* encoded frame, checksum included, XOR to 0: the last byte is the XOR of
\* all bytes before it, with the length byte already set
C18_ChecksumInvariant ==
    packet # <<>> =>
        /\ XorAll(packet) = 0
        /\ packet[Len(packet)] = XorAll(SubSeq(packet, 1, Len(packet) - 1))

\* the frame of opcode 0xFF with the payload [0x73, 0xFF] has been encoded
C18_Witness ==
    /\ cmd = 255
    /\ payload = <<115, 255>>
    /\ packet # <<>>

\* C19: the encoded frame is [0x73, L, 0x23, opcode, payload..., checksum]
\* with L = 4 + len(payload) + 1 the length of the whole frame, so that its
\* byte at index 3 is the opcode; encode(0x04, [0x01]) is
\* [0x73, 0x06, 0x23, 0x04, 0x01, 0x53]
C19_FrameLayout ==
    packet # <<>> =>
        /\ Len(packet) = 4 + Len(payload) + 1
        /\ SubSeq(packet, 1, 4) = <<115, 4 + Len(payload) + 1, 35, cmd>>
        /\ SubSeq(packet, 5, Len(packet) - 1) = payload
        /\ At(packet, 3) = cmd
        /\ (cmd = 4 /\ payload = <<1>>) => packet = <<115, 6, 35, 4, 1, 83>>

\* encode(0x04, [0x01]) has returned
C19_Witness ==
    /\ cmd = 4
    /\ payload = <<1>>
    /\ Len(packet) = 6

(***************************************************************************)
(* monitor_continuous: the periodic save.                                  *)
(***************************************************************************)
\* C20: _save_monitoring_data is called in the poll iterations whose index
\* (from 1) is a multiple of 10, with the accumulators as they are after
\* that iteration's fetches and appends and before its sleep, and in no
\* other iteration; the only other call is the one that ends the loop
C20_PeriodicFlushEveryTenth ==
    [][/\ (step = "poll" /\ step' = "interval") =>
              IF iteration % 10 = 0
              THEN /\ flushes' = flushes + 1
                   /\ runtime_acc' # <<>> => saved'.runtime = runtime_acc'
                   /\ cell_acc' # <<>> => saved'.cell = cell_acc'
              ELSE /\ flushes' = flushes
                   /\ saved' = saved
       /\ flushes' # flushes => step = "poll" \/ ~monitoring']_vars

\* the twentieth iteration has saved for the second time, all twenty
\* runtime records, and is at its sleep
C20_Witness ==
    /\ step = "interval"
    /\ iteration = 20
    /\ flushes = 2
    /\ Len(saved.runtime) = 20
    /\ saved.runtime = runtime_acc

(***************************************************************************)
(* _decode_cell_voltages: the frames of the notification handler.          *)
(***************************************************************************)
\* C21: a cell frame that is not valid text and holds at least one complete
\* 16-bit reading at offset 7 onward (9 bytes or more) is decoded by the
\* binary layout: the cell slot is the record of that notification.
C21_BinaryFallbackDecodesAnyReading ==
    \A i \in FrameIds :
        (/\ received = i
         /\ HasOpcode(i)
         /\ FrameOpcode(i) = CMD_CELL_VOLTAGES
         /\ Len(Frames[i]) >= 9
         /\ CellTextBranch(Frames[i], 0) = NoRecord)
            => /\ cell_data # EmptyDict
               /\ cell_data.timestamp = now - 1
               /\ cell_data.summary.count >= 1

\* C22: (as written) the frame whose payload after the 4-byte header is the
\* text 85_25_27_3300_3301_3299_3302_3298_3300_3301_3299_3302_3298_3300_3301_3299
\* yields soc 85, temperatures 25 and 27, and 14 cells: the first 3.300 V,
\* min 3.298, max 3.302, spread 0.004.
C22_ExampleAsWritten ==
    (received # 0 /\ Frames[received] = FrameCellExample)
        => /\ cell_data # EmptyDict
           /\ cell_data.soc = 85
           /\ cell_data.temperatures = [temp1 |-> 25, temp2 |-> 27]
           /\ cell_data.summary.count = 14
           /\ cell_data.cells[1] = 3300
           /\ cell_data.summary.min = 3298
           /\ cell_data.summary.max = 3302
           /\ cell_data.summary.diff = 4

\* C22: the example text has 16 fields, three values and 13 readings. With a
\* fourteenth reading, _3300, appended it is decoded by the text branch to
\* soc 85, temperatures 25 and 27, and 14 cells: the first 3.300 V, min 3.298,
\* max 3.302, spread 0.004. The text as written has fewer than 17 fields, is
\* left to the binary layout, and that reads its characters as bytes:
\* soc 56 ('8'), temperatures 53 ('5') and 95 ('_'), 14 readings, the first
\* 13618 mV ('2', '5').
C22_ExampleWithFourteenReadings ==
    /\ (received # 0 /\ Frames[received] = FrameCellText)
          => /\ cell_data # EmptyDict
             /\ cell_data.timestamp = now - 1
             /\ cell_data.soc = 85
             /\ cell_data.temperatures = [temp1 |-> 25, temp2 |-> 27]
             /\ cell_data.summary.count = 14
             /\ cell_data.cells[1] = 3300
             /\ cell_data.summary.min = 3298
             /\ cell_data.summary.max = 3302
             /\ cell_data.summary.diff = 4
    /\ (received # 0 /\ Frames[received] = FrameCellExample)
          => /\ cell_data # EmptyDict
             /\ cell_data.timestamp = now - 1
             /\ cell_data.soc = 56
             /\ cell_data.temperatures = [temp1 |-> 53, temp2 |-> 95]
             /\ cell_data.summary.count = 14
             /\ cell_data.cells[1] = 13618

\* the example with its fourteenth reading was the second notification
C22_Witness ==
    /\ now = 2
    /\ received # 0
    /\ Frames[received] = FrameCellText
    /\ cell_data # EmptyDict
    /\ cell_data.timestamp = 1
    /\ cell_data.soc = 85
    /\ cell_data.summary.count = 14

\* C23: a cell frame whose payload past offset 4 splits on underscore into
\* at least 17 fields, the first 17 of them numbers, is decoded by the text
\* branch: soc, temp1, temp2 are fields 1-3, the cells are exactly the 14
\* fields 4-17 (millivolts), the fields after the 17th are ignored, and the
\* binary layout (soc at offset 4) is not applied.
C23_TextBranchReadsFields4To17 ==
    \A i \in FrameIds :
        LET parts == PySplit(Utf8Ignore(PySlice(Frames[i], 4, Len(Frames[i]))), 95)
        IN  (/\ received = i
             /\ HasOpcode(i)
             /\ FrameOpcode(i) = CMD_CELL_VOLTAGES
             /\ Len(parts) >= 17
             /\ \A k \in 1..17 : PyNumeric(parts[k]))
                => /\ cell_data # EmptyDict
                   /\ cell_data.timestamp = now - 1
                   /\ cell_data.soc = PyNumber(parts[1])
                   /\ cell_data.temperatures.temp1 = PyNumber(parts[2])
                   /\ cell_data.temperatures.temp2 = PyNumber(parts[3])
                   /\ cell_data.cells = [k \in 1..14 |-> PyNumber(parts[k + 3])]
                   /\ cell_data.summary.count = 14
                   /\ cell_data.soc # At(Frames[i], 4)

\* the frame of 19 fields, whose last two are 3300 and 9999, was decoded:
\* 14 cells, none of them 9999
C23_Witness ==
    /\ received # 0
    /\ Frames[received] = CellTextFrames[1]
    /\ cell_data # EmptyDict
    /\ cell_data.timestamp = now - 1
    /\ cell_data.soc = 85
    /\ cell_data.summary.count = 14
    /\ cell_data.cells[14] = 3300
    /\ cell_data.summary.max = 3302

(***************************************************************************)
(* monitor_continuous: the duration and the accumulators.                  *)
(***************************************************************************)
\* C24: whenever a duration is supplied (any value, 0 included), a loop head
\* whose elapsed time is at least the duration starts no poll: it drains
\* (flushes) and ends the loop.
C24_NoPollAtOrAfterDuration ==
    [][(/\ step = "loop_head"
        /\ step' # "loop_head"
        /\ duration # NoDuration
        /\ clock >= duration)
           => /\ step' # "poll"
              /\ ~monitoring'
              /\ flushes' = flushes + 1]_vars

\* C25: a poll iteration appends exactly one entry to the runtime
\* accumulator if the runtime slot is non-empty after the fetches and none
\* otherwise, and likewise to the cell accumulator; while the loop runs an
\* accumulator only grows at its end, and every flush, periodic or final,
\* writes every entry accumulated since the loop started.
C25_AccumulatorsOnlyGrow ==
    [][/\ (step = "poll" /\ step' = "interval")
          => /\ Len(runtime_acc') = Len(runtime_acc)
                    + (IF runtime_data' # EmptyDict THEN 1 ELSE 0)
             /\ Len(cell_acc') = Len(cell_acc)
                    + (IF cell_data' # EmptyDict THEN 1 ELSE 0)
       /\ monitoring'
          => /\ Len(runtime_acc') >= Len(runtime_acc)
             /\ SubSeq(runtime_acc', 1, Len(runtime_acc)) = runtime_acc
             /\ Len(cell_acc') >= Len(cell_acc)
             /\ SubSeq(cell_acc', 1, Len(cell_acc)) = cell_acc
       /\ (flushes' # flushes /\ monitoring')
          => /\ runtime_acc' # <<>> => saved'.runtime = runtime_acc'
             /\ cell_acc' # <<>> => saved'.cell = cell_acc'
       /\ (flushes' # flushes /\ ~monitoring')
          => /\ runtime_acc # <<>> => saved'.runtime = runtime_acc
             /\ cell_acc # <<>> => saved'.cell = cell_acc]_vars

\* the tenth iteration has appended its runtime record and saved all ten;
\* the cell slot was empty in every iteration and no cell record was kept
C25_Witness ==
    /\ step = "interval"
    /\ iteration = 10
    /\ flushes = 1
    /\ Len(runtime_acc) = 10
    /\ saved.runtime = runtime_acc
    /\ cell_data = EmptyDict
    /\ cell_acc = <<>>

\* C26: every entry of an accumulator was decoded from a notification of the
\* iteration that appended it, so no snapshot appears twice in the
\* accumulated series.
C26_NoSnapshotTwice ==
    /\ \A j, k \in 1..Len(runtime_acc) : j # k => runtime_acc[j] # runtime_acc[k]
    /\ \A j, k \in 1..Len(cell_acc) : j # k => cell_acc[j] # cell_acc[k]

\* C27: a non-empty cell slot holds between 1 and 14 cells and summary.count
\* is their number; a frame in the binary layout that was decoded gave one
\* cell for each 16-bit pair at offsets 7, 9, ..., 33 lying wholly inside
\* the frame, whatever its length.
C27_CellCountWithinFourteen ==
    /\ cell_data # EmptyDict
          => /\ Len(cell_data.cells) \in 1..14
             /\ cell_data.summary.count = Len(cell_data.cells)
    /\ \A n \in 32..40 :
          (received # 0 /\ Frames[received] = BinaryCellFrame(n))
              => /\ cell_data # EmptyDict
                 /\ cell_data.timestamp = now - 1
                 /\ cell_data.summary.count = Min2(14, (n - 7) \div 2)
                 /\ \A k \in 1..cell_data.summary.count :
                       /\ 7 + 2 * (k - 1) + 1 < n
                       /\ cell_data.cells[k] = LE16(Frames[received], 7 + 2 * (k - 1))

\* a binary frame of 40 bytes was the second notification and was decoded
\* to 14 cells
C27_Witness ==
    /\ now = 2
    /\ received # 0
    /\ Frames[received] = BinaryCellFrame(40)
    /\ cell_data # EmptyDict
    /\ cell_data.timestamp = 1
    /\ cell_data.summary.count = 14

\* C28: the summary of a non-empty cell slot is computed over its cells:
\* min is the smallest and max the largest of the readings, each of them one
\* of the readings, diff is max - min, sum their total and count their number.
C28_SummaryOverDecodedCells ==
    cell_data # EmptyDict
        => LET cells == cell_data.cells
               summary == cell_data.summary
           IN  /\ \E k \in 1..Len(cells) : cells[k] = summary.min
               /\ \A k \in 1..Len(cells) : summary.min <= cells[k]
               /\ \E k \in 1..Len(cells) : cells[k] = summary.max
               /\ \A k \in 1..Len(cells) : cells[k] <= summary.max
               /\ summary.diff = summary.max - summary.min
               /\ summary.sum = SeqSum(cells)
               /\ summary.count = Len(cells)

\* C29: in a text frame of at least 17 fields whose fields 4-17 are numbers
\* or empty, an empty cell field drops that cell only: count is the number
\* of non-empty cell fields and the reading of field k+3 is reported as
\* cell k (cells[j] is the reading stored under the key cell<j>).
C29_EmptyFieldKeepsCellPositions ==
    \A i \in FrameIds :
        LET parts == PySplit(Utf8Ignore(PySlice(Frames[i], 4, Len(Frames[i]))), 95)
            filled == {k \in 1..14 : parts[k + 3] # <<>>}
        IN  (/\ received = i
             /\ HasOpcode(i)
             /\ FrameOpcode(i) = CMD_CELL_VOLTAGES
             /\ Len(parts) >= 17
             /\ \A k \in 1..3 : PyNumeric(parts[k])
             /\ \A k \in filled : PyNumeric(parts[k + 3])
             /\ filled # {})
                => /\ cell_data # EmptyDict
                   /\ cell_data.timestamp = now - 1
                   /\ cell_data.summary.count = Cardinality(filled)
                   /\ \A k \in filled :
                         /\ k <= Len(cell_data.cells)
                         /\ cell_data.cells[k] = PyNumber(parts[k + 3])

(***************************************************************************)
(* _decode_timer_info: the frames of the notification handler.             *)
(***************************************************************************)
\* C30: a timer frame shorter than 33 bytes leaves the timer slot as it was;
\* a frame of 33 to 56 bytes replaces it by the three base timers (flags at
\* offsets 5, 12, 19) and the adaptive block (offset 26) without extension
\* timers, whatever the slot held before; a frame of 57 bytes or more also
\* holds timer4 (offset 43) and timer5 (offset 50); the two extension timers
\* are present together or not at all.
C30_TimerDecodeByLength ==
    [][/\ \A i \in FrameIds :
             (/\ Notified
              /\ received' = i
              /\ HasOpcode(i)
              /\ FrameOpcode(i) = CMD_GET_TIMERS)
                 => LET data == Frames[i]
                        t == timer_data'
                    IN  /\ Len(data) < 33 => t = timer_data
                        /\ Len(data) >= 33
                              => /\ t # EmptyDict
                                 /\ t.timestamp = now
                                 /\ t.timer1.enabled = (At(data, 5) = 1)
                                 /\ t.timer1.power = LE16(data, 10)
                                 /\ t.timer2.enabled = (At(data, 12) = 1)
                                 /\ t.timer2.power = LE16(data, 17)
                                 /\ t.timer3.enabled = (At(data, 19) = 1)
                                 /\ t.timer3.power = LE16(data, 24)
                                 /\ t.adaptive.enabled = (At(data, 26) = 1)
                                 /\ t.adaptive.power = LE16(data, 27)
                                 /\ t.adaptive.meter = LE16(data, 29)
                                 /\ t.adaptive.time = LE16(data, 31)
                        /\ (Len(data) >= 33 /\ Len(data) < 57)
                              => t.timer4 = NoTimer /\ t.timer5 = NoTimer
                        /\ Len(data) >= 57
                              => /\ t.timer4 # NoTimer
                                 /\ t.timer4.enabled = (At(data, 43) = 1)
                                 /\ t.timer4.power = LE16(data, 48)
                                 /\ t.timer5 # NoTimer
                                 /\ t.timer5.enabled = (At(data, 50) = 1)
                                 /\ t.timer5.power = LE16(data, 55)
       /\ timer_data' # EmptyDict
             => (timer_data'.timer4 = NoTimer <=> timer_data'.timer5 = NoTimer)]_vars

\* a timer frame of 33 bytes was the second notification: the slot holds
\* its base timers and no extension timer
C30_Witness ==
    /\ now = 2
    /\ received # 0
    /\ Frames[received] = TimerFrame(33)
    /\ timer_data # EmptyDict
    /\ timer_data.timestamp = 1
    /\ timer_data.timer1.power = LE16(TimerFrame(33), 10)
    /\ timer_data.timer4 = NoTimer
    /\ timer_data.timer5 = NoTimer

(***************************************************************************)
(* _notification_handler: the waiter and the opcode of the frame.          *)
(***************************************************************************)
\* C31: a waiter registered for opcode X is completed only by a notification
\* whose byte at index 3 is X, and with that frame; a notification of
\* another opcode (or without opcode) leaves the future registered for X as
\* it was, and no notification replaces or removes a registration.
C31_WaiterCompletedByOwnOpcodeOnly ==
    [][/\ \A f \in FutureIds :
             (futures[f].st = "pending" /\ futures'[f].st = "done")
                 => /\ Notified
                    /\ HasOpcode(received')
                    /\ FrameOpcode(received') \in Opcodes
                    /\ notification_callbacks[FrameOpcode(received')] = f
                    /\ futures'[f].result = received'
       /\ Notified
             => /\ notification_callbacks' = notification_callbacks
                /\ \A c \in Opcodes :
                      (/\ notification_callbacks[c] # 0
                       /\ ~HasOpcode(received') \/ FrameOpcode(received') # c)
                          => futures'[notification_callbacks[c]]
                                = futures[notification_callbacks[c]]]_vars

\* a frame of another opcode was decoded by the last notification while the
\* call in flight is awaiting its waiter, which is still registered and
\* pending
C31_Witness ==
    /\ step = "wait"
    /\ response_future # 0
    /\ notification_callbacks[cmd] = response_future
    /\ futures[response_future].st = "pending"
    /\ received # 0
    /\ HasOpcode(received)
    /\ FrameOpcode(received) # cmd
    /\ FrameOpcode(received) = CMD_CELL_VOLTAGES
    /\ cell_data # EmptyDict
    /\ cell_data.timestamp = now - 1

=============================================================================
